---------------------------- MODULE Spec2Model ----------------------------
(***************************************************************************)
(* Game-session orchestration and resilience engine of the Lichess bot     *)
(* (src/trash_bot.py): the active-game registry and its guard, the         *)
(* admission limiter, the per-game session thread with its finalization,   *)
(* the result counters, and the retry wrapper for outbound calls.          *)
(*                                                                         *)
(* Threads are named by pairs <<kind, index>>.  Three specifications share *)
(* one initial state:                                                      *)
(*   Spec       the event listener and the session threads it starts;      *)
(*   SpecGuard  several threads calling the guarded registry operations    *)
(*              (claim_game, remove_active, inc_result) at the same time;  *)
(*   SpecRetry  one caller inside _retry_call, the operation's outcome     *)
(*              chosen by the environment at every attempt.                *)
(***************************************************************************)
EXTENDS Integers, Sequences, FiniteSets, TLC

(***************************************************************************)
(* Bounds of the model.                                                    *)
(***************************************************************************)
\* threads calling the registry operations concurrently in SpecGuard
NCallers == 3
\* inc_result calls made in SpecGuard
MaxIncCalls == 2
\* session threads the listener starts in Spec
MaxSessions == 2
\* rate-limit (429) failures the platform answers within one _retry_call
Max429 == 3
\* times a stream adapter opens its feed, and events it hands on, in SpecStream
MaxOpens == 3
MaxYields == 2

(***************************************************************************)
(* Program constants.                                                      *)
(***************************************************************************)
\* MAX_ACTIVE_GAMES = int(os.getenv("MAX_ACTIVE_GAMES", "1"))
MAX_ACTIVE_GAMES == 1
\* MAX_NET_RETRIES = int(os.getenv("MAX_NET_RETRIES", "6"))
MAX_NET_RETRIES == 6
\* RECONNECT_DELAY_SEC, in seconds
RECONNECT_DELAY_SEC == 5
\* backoff_429 = 60 at the start of _retry_call
BACKOFF_429_START == 60
\* min(backoff_429 * 2, 1800)
BACKOFF_429_CAP == 1800

GIDS == {"g1", "g2"}
KINDS == {"win", "loss", "draw"}

Free == <<"free", 0>>
Listener == <<"listener", 0>>
Challenger == <<"challenger", 0>>
HarnessCallers == {<<"caller", i>> : i \in 1..NCallers}
Slots == 1..MaxSessions
T(i) == <<"session", i>>
SessionThreads == {T(i) : i \in Slots}
Threads == {Listener} \cup HarnessCallers \cup SessionThreads
RetryCaller == <<"retry", 0>>

VARIABLES
    \* ---- registry, counters and their guard (trash_bot.py 356-364)
    active_games,   \* set of game ids with a running handler
    lock,           \* holder of `lock`, or Free
    wins, losses, draws,
    game_limit,     \* free slots of the BoundedSemaphore
    \* ---- per thread
    pc,             \* where the thread is
    tgid,           \* the game id it works on
    tcolor,         \* my_color ("none": not known)
    tret,           \* what claim_game returned to it
    tkind,          \* the kind it passes to inc_result ("none": no call)
    ttmp,           \* the counter value inc_result read
    engine,         \* a session's engine handle: none, live, quit
    sexit,          \* the way the session's loop was left ("none": not left)
    sres,           \* what games.export answered in finalize_game
    finalized,      \* how many times finalize_game ran in the thread
    started,        \* number of handler threads started so far
    inc_done,       \* completed inc_result calls, per kind
    inc_begun,      \* inc_result calls begun
    \* ---- the platform
    gstatus, gwinner,
    http_lock,      \* holder of _http_lock, or Free
    inflight,       \* outbound platform calls in flight: {<<thread, what>>}
    \* ---- one caller inside _retry_call (SpecRetry)
    rpc,            \* where the caller is: idle, try, fly, sleep429, ...
    attempt,        \* the local `attempt`
    backoff_429,    \* the local `backoff_429`
    rlast,          \* how the latest attempt of the operation ended
    rsleeps,        \* the time.sleep calls made so far: <<reason, seconds>>
    ncalls,         \* invocations of the operation so far
    n429, ntrans,   \* rate-limit / transient failures the platform gave
    \* ---- the reconnecting stream adapters (SpecStream)
    apc,            \* where the adapter is: open, iter, sleep
    aend,           \* how the feed ended last: none, clean, error
    await,          \* seconds slept since the feed ended last
    aopens,         \* times the feed was opened
    ayields,        \* events handed to the consumer
    \* ---- one call of safe_make_move (SpecMove)
    mpc,            \* where the call is: idle, micro, hard, book, tb, normal, submit, resign, done
    msec,           \* sec_left of the call
    mbook,          \* cur_ply <= BOOK_PLIES
    msteps,         \* the steps invoked so far, in order
    msrc,           \* the step whose move is being submitted
    mproduced,      \* the first step that produced a move ("none": no step has)
    msubmits,       \* make_move submissions made
    mresigns,       \* resign_game submissions made
    mpushed,        \* moves pushed on the local board
    mrej,           \* submissions made when a benign rejection came (0: none came)
    mret,           \* what the call returned: none, ok, fail
    mloop,          \* the session loop around the call: stream, moving, quit
    \* ---- one call of play_or_rescue (SpecRescue)
    qpc,            \* where the call is: idle, first, quit, spawn, halve, sleep, retry, done
    qsec,           \* sec_left of the call
    qbudget,        \* ENGINE_MAX_RETRIES
    qlimit,         \* the limit passed in
    qnewlimit,      \* the limit of the retry
    qops,           \* what the rescue has done so far, in order
    qold,           \* the engine passed in: live, quit
    qnew,           \* the replacement engine: none, live
    qret,           \* none, result (a PlayResult), swap (the tuple), noresult (None)
    \* ---- admission and outgoing dispatch (SpecAdmit)
    kpc,            \* boot (start() not run yet) or run
    kcfg,           \* the configuration read from the environment
    kkind,          \* type of the last event handled
    kreply,         \* answer to the last event: none, accept, decline
    kseen,          \* history: what the last event was, noted when it was handled
    ksess,          \* games whose session thread was started and still runs
    dpc,            \* challenger_loop: boot, off (returned), top, walk, pause
    dnow,           \* time.time(), in ticks
    bots_cache,     \* the candidate list of challenger_loop
    last_cache,     \* tick of the last refresh of bots_cache
    didx,           \* position of the walk in bots_cache
    last_challenged,\* opponent -> tick of the last attempt, -1 if none
    pending_challenges,\* opponents with a pending outgoing challenge
    dissued,        \* opponent -> tick of the last challenge created, -1 if none
    doutstanding,   \* history: opponents challenged and not yet resolved
    \* ---- pacing of challenge creation (SpecThrottle)
    hpc,            \* challenge_bot: idle, create (throttle passed), wait (sleeping in _retry_call)
    hnow,           \* time.time()
    next_http_ok_at,\* _next_http_ok_at
    hb429,          \* backoff_429 of the running _retry_call
    hattempt,       \* attempt of the running _retry_call
    hwake,          \* when the sleep of the running _retry_call ends
    hcalls,         \* calls of challenge_bot so far
    hposts,         \* requests sent so far
    hlast,          \* history: time of the last request the server answered, -1 if none
    hgap,           \* history: shortest time between two answered requests, -1 if none
    huntil,         \* history: latest time.time() + seconds passed to http_backoff
    \* ---- calls of normalize_fen (SpecFen)
    nf_in,          \* the argument of the last call
    nf_out,         \* its result
    nf_twice,       \* normalize_fen of that result, <<>> until computed
    \* ---- position cache (SpecCache)
    cpc,            \* boot (before start()) or run
    use_fen_cache,  \* USE_FEN_CACHE
    fen_cache,      \* the in-memory cache
    cfile,          \* the content of the cache file
    cnewer,         \* mtime of the file > _cache_last_mtime
    cjobs,          \* the job files of the queue directory, by fingerprint
    cprobe,         \* history: what the last probe met, did and changed
    cload,          \* history: what the last load or reload met and kept
    cchecked,       \* _cache_last_check has been set
    cext,           \* history: what the cooperating process wrote last
    \* ---- offload queue (SpecJob)
    jpc,            \* per session: idle, opened, closed
    jlen,           \* per session: the length of the job text being written
    jfd,            \* per session: the inode of the open file, 0 if none
    jtmp,           \* the inode named key.json.tmp
    jfin,           \* the inode named key.json
    jinode,         \* the content of every inode made so far
    jcalls,         \* per session: calls of enqueue_fen_job made
    jerr,           \* per session: the last call logged an exception
    \* ---- session loop (SpecLoop)
    lrun,           \* new, stream, or ended
    lexit,          \* why the loop was left ("none": not left)
    lcolor,         \* my_color ("none": not known)
    lboard,         \* board
    lkind,          \* history: the type of the last event handled
    lmoves,         \* history: the move list of the last event that synced
    lsynced,        \* history: the board as the last sync left it
    lstale,         \* history: the last sync found a board other than its result
    lsteps,         \* history: what the last event invoked after the sync
    \* ---- time management (SpecTime)
    tsit,           \* the situation: clock, increment, base, in check, forced
    tcall,          \* the last call of compute_movetime: ply, budget, returned
    tprev,          \* the call of compute_movetime before it, same situation
    tthink,         \* the normal search that made the last call: guard, think
    \* ---- opening book chooser (SpecBook)
    bpolicy,        \* BOOK_POLICY for the side
    breaders,       \* what each reader of the list finds, in list order
    bmove,          \* the move returned, 0 for None
    bdone,          \* a call has returned
    \* ---- challenger loop and the guard (SpecGuardLoop)
    wpc,            \* where the loop is
    wfresh,         \* now - last_now_playing_check < ttl
    wbusy,          \* cached_now_playing > 0
    \* ---- _http_lock and the sleeps (SpecPace)
    ppc,            \* per thread: idle, throttle_lock, throttle_sleep, throttle_set, call, send, sleep
    plock,          \* the holder of _http_lock, or Free
    pfuture         \* now < _next_http_ok_at

regVars == <<active_games, lock, wins, losses, draws, game_limit>>
threadVars == <<pc, tgid, tcolor, tret, tkind, ttmp, engine, sexit, sres,
                finalized, started, inc_done, inc_begun>>
platVars == <<gstatus, gwinner, http_lock, inflight>>
retryVars == <<rpc, attempt, backoff_429, rlast, rsleeps, ncalls, n429,
               ntrans>>

coreVars == <<regVars, threadVars, platVars, retryVars>>
streamVars == <<apc, aend, await, aopens, ayields>>
moveVars == <<mpc, msec, mbook, msteps, msrc, mproduced, msubmits, mresigns,
              mpushed, mrej, mret, mloop>>
rescueVars == <<qpc, qsec, qbudget, qlimit, qnewlimit, qops, qold, qnew,
                qret>>
admitVars == <<kpc, kcfg, kkind, kreply, kseen, ksess, dpc, dnow, bots_cache,
               last_cache, didx, last_challenged, pending_challenges, dissued,
               doutstanding>>
throttleVars == <<hpc, hnow, next_http_ok_at, hb429, hattempt, hwake, hcalls,
                  hposts, hlast, hgap, huntil>>
fenVars == <<nf_in, nf_out, nf_twice>>
cacheVars == <<cpc, use_fen_cache, fen_cache, cfile, cnewer, cjobs, cprobe,
               cload, cchecked, cext>>
jobVars == <<jpc, jlen, jfd, jtmp, jfin, jinode, jcalls, jerr>>
loopVars == <<lrun, lexit, lcolor, lboard, lkind, lmoves, lsynced, lstale,
              lsteps>>
timeVars == <<tsit, tcall, tprev, tthink>>
bookVars == <<bpolicy, breaders, bmove, bdone>>
guardLoopVars == <<wpc, wfresh, wbusy>>
paceVars == <<ppc, plock, pfuture>>
extVars == <<streamVars, moveVars, rescueVars, admitVars, throttleVars,
             fenVars, cacheVars, jobVars, loopVars, timeVars, bookVars,
             guardLoopVars, paceVars>>

vars == <<coreVars, extVars>>

(***************************************************************************)
(* The platform's side of the games.  The bot plays White in g1 and Black  *)
(* in g2.  A game is in progress ("started") until it ends with a terminal *)
(* status and a winner ("none": no winner reported).                       *)
(***************************************************************************)
BotColor(g) == IF g = "g1" THEN "white" ELSE "black"
OtherColor(c) == IF c = "white" THEN "black" ELSE "white"

TERMINAL_STATUSES ==
    {"aborted", "mate", "resign", "stalemate", "timeout", "outoftime",
     "draw", "nostart", "cheat", "variantend", "abandoned"}

\* <<status, winner>> pairs the platform ends a game with in this model
Outcomes ==
    {<<"mate", "white">>, <<"aborted", "none">>, <<"cheat", "white">>}

NoResult == <<"unset", "none">>

Init ==
    /\ active_games = {}
    /\ lock = Free
    /\ wins = 0 /\ losses = 0 /\ draws = 0
    /\ game_limit = MAX_ACTIVE_GAMES
    /\ pc = [t \in Threads |-> IF t \in SessionThreads THEN "none" ELSE "idle"]
    /\ tgid = [t \in Threads |-> "g1"]
    /\ tcolor = [t \in Threads |-> "none"]
    /\ tret = [t \in Threads |-> FALSE]
    /\ tkind = [t \in Threads |-> "none"]
    /\ ttmp = [t \in Threads |-> 0]
    /\ engine = [t \in Threads |-> "none"]
    /\ sexit = [t \in Threads |-> "none"]
    /\ sres = [t \in Threads |-> NoResult]
    /\ finalized = [t \in Threads |-> 0]
    /\ started = 0
    /\ inc_done = [k \in KINDS |-> 0]
    /\ inc_begun = 0
    /\ gstatus = [g \in GIDS |-> "started"]
    /\ gwinner = [g \in GIDS |-> "none"]
    /\ http_lock = Free
    /\ inflight = {}
    /\ rpc = "idle"
    /\ attempt = 0
    /\ backoff_429 = BACKOFF_429_START
    /\ rlast = "none"
    /\ rsleeps = <<>>
    /\ ncalls = 0
    /\ n429 = 0
    /\ ntrans = 0
    /\ apc = [a \in {"incoming", "game"} |-> "open"]
    /\ aend = [a \in {"incoming", "game"} |-> "none"]
    /\ await = [a \in {"incoming", "game"} |-> 0]
    /\ aopens = [a \in {"incoming", "game"} |-> 0]
    /\ ayields = [a \in {"incoming", "game"} |-> 0]
    /\ mpc = "idle"
    /\ msec = <<"none", 0>>
    /\ mbook = FALSE
    /\ msteps = <<>>
    /\ msrc = "none"
    /\ mproduced = "none"
    /\ msubmits = 0
    /\ mresigns = 0
    /\ mpushed = 0
    /\ mrej = 0
    /\ mret = "none"
    /\ mloop = "stream"
    /\ qpc = "idle"
    /\ qsec = <<"none", 0>>
    /\ qbudget = 0
    /\ qlimit = <<"depth", 1>>
    /\ qnewlimit = <<"depth", 1>>
    /\ qops = <<>>
    /\ qold = "live"
    /\ qnew = "none"
    /\ qret = "none"
    /\ kpc = "boot"
    /\ kcfg = [tmode |-> FALSE, only |-> "", variant_std |-> TRUE,
               nonrated |-> TRUE, humans |-> TRUE, proactive |-> TRUE]
    /\ kkind = "none"
    /\ kseen = [inbound |-> FALSE, self |-> FALSE, passes |-> FALSE,
                free |-> FALSE, foreign |-> FALSE, claimed |-> FALSE]
    /\ kreply = "none"
    /\ ksess = {}
    /\ dpc = "boot"
    /\ dnow = 0
    /\ bots_cache = <<>>
    /\ last_cache = 0
    /\ didx = 0
    /\ last_challenged = [o \in {"x", "y"} |-> -1]
    /\ pending_challenges = {}
    /\ dissued = [o \in {"x", "y"} |-> -1]
    /\ doutstanding = {}
    /\ hpc = "idle"
    /\ hnow = 0
    /\ next_http_ok_at = 0
    /\ hb429 = 60
    /\ hattempt = 0
    /\ hwake = 0
    /\ hcalls = 0
    /\ hposts = 0
    /\ hlast = -1
    /\ hgap = -1
    /\ huntil = 0
    /\ nf_in = <<>>
    /\ nf_out = <<>>
    /\ nf_twice = <<>>
    /\ cpc = "boot"
    /\ use_fen_cache = FALSE
    /\ fen_cache = <<>>
    /\ cfile = <<>>
    /\ cnewer = TRUE
    /\ cjobs = {}
    /\ cprobe = [done |-> FALSE, enabled |-> FALSE, present |-> FALSE,
                 stored |-> "", ret |-> "", engine |-> FALSE,
                 changed |-> FALSE]
    /\ cload = [done |-> FALSE, reload |-> FALSE, merged |-> TRUE,
                collision |-> FALSE, resolved |-> TRUE]
    /\ cchecked = FALSE
    /\ cext = <<>>
    /\ jpc = [s \in 1..MaxSessions |-> "idle"]
    /\ jlen = [s \in 1..MaxSessions |-> 0]
    /\ jfd = [s \in 1..MaxSessions |-> 0]
    /\ jtmp = 0
    /\ jfin = 0
    /\ jinode = <<>>
    /\ jcalls = [s \in 1..MaxSessions |-> 0]
    /\ jerr = [s \in 1..MaxSessions |-> FALSE]
    /\ lrun = "new"
    /\ lexit = "none"
    /\ lcolor = "none"
    /\ lboard = <<>>
    /\ lkind = "none"
    /\ lmoves = <<>>
    /\ lsynced = <<>>
    /\ lstale = FALSE
    /\ lsteps = <<>>
    /\ tsit = [set |-> FALSE, rem |-> <<0, 1>>, inc |-> <<0, 1>>,
               base |-> 0, in_check |-> FALSE, forced |-> FALSE]
    /\ tcall = [done |-> FALSE, ply |-> 0, clamped |-> FALSE,
                budget |-> <<0, 1>>, jitter |-> <<1, 1>>, ret |-> <<0, 1>>]
    /\ tprev = [done |-> FALSE, ply |-> 0, clamped |-> FALSE,
                budget |-> <<0, 1>>, jitter |-> <<1, 1>>, ret |-> <<0, 1>>]
    /\ tthink = [done |-> FALSE, ply |-> 0, guard |-> <<0, 1>>,
                 think |-> <<0, 1>>]
    /\ bpolicy = "best_move"
    /\ breaders = <<>>
    /\ bmove = 0
    /\ bdone = FALSE
    /\ wpc = "sweep"
    /\ wfresh = FALSE
    /\ wbusy = FALSE
    /\ ppc = [t \in {Challenger} \cup SessionThreads |-> "idle"]
    /\ plock = Free
    /\ pfuture = FALSE

\* what an action leaves alone besides the variables it lists
Frame(listed) == UNCHANGED listed /\ UNCHANGED retryVars /\ UNCHANGED extVars

(***************************************************************************)
(* with_lock: the wrapped function runs while its thread holds `lock`.     *)
(***************************************************************************)
\* the decorator left off: the body runs without waiting for the lock
LockAvailableNoGuard(t) == TRUE

LockAvailable(t) == lock = Free

Released(t) == IF lock = t THEN Free ELSE lock

\* a session keeps its locals until its thread ends; those of a harness
\* caller are gone when its call returns
KeptBy(t, v, d) == IF t \in SessionThreads THEN v ELSE d

(***************************************************************************)
(* claim_game(gid), run by thread t: take the lock, test membership, add.  *)
(***************************************************************************)
ClaimAcquire(t) ==
    /\ pc[t] = "claim_wait"
    /\ LockAvailable(t)
    /\ lock' = t
    /\ pc' = [pc EXCEPT ![t] = "claim_check"]
    /\ Frame(<<active_games, wins, losses, draws, game_limit, tgid, tcolor,
               tret, tkind, ttmp, engine, sexit, sres, finalized, started,
               inc_done, inc_begun, platVars>>)

\* `if gid in active_games: return False` (the lock is released on return)
ClaimCheck(t) ==
    /\ pc[t] = "claim_check"
    /\ IF tgid[t] \in active_games
         THEN /\ tret' = [tret EXCEPT ![t] = FALSE]
              /\ pc' = [pc EXCEPT ![t] = "claim_ret"]
              /\ lock' = Released(t)
         ELSE /\ pc' = [pc EXCEPT ![t] = "claim_add"]
              /\ UNCHANGED <<tret, lock>>
    /\ Frame(<<active_games, wins, losses, draws, game_limit, tgid, tcolor,
               tkind, ttmp, engine, sexit, sres, finalized, started, inc_done,
               inc_begun, platVars>>)

\* `active_games.add(gid); return True`
ClaimAdd(t) ==
    /\ pc[t] = "claim_add"
    /\ active_games' = active_games \cup {tgid[t]}
    /\ tret' = [tret EXCEPT ![t] = TRUE]
    /\ pc' = [pc EXCEPT ![t] = "claim_ret"]
    /\ lock' = Released(t)
    /\ Frame(<<wins, losses, draws, game_limit, tgid, tcolor, tkind, ttmp,
               engine, sexit, sres, finalized, started, inc_done, inc_begun,
               platVars>>)

(***************************************************************************)
(* remove_active(gid): `with lock: active_games.discard(gid)`.  A session  *)
(* calls it from finalize_game's finally block and then leaves             *)
(* finalize_game; a harness caller is idle again.                          *)
(***************************************************************************)
AfterRemove(t) == IF t \in SessionThreads THEN "exit" ELSE "idle"

RemoveActive(t) ==
    /\ pc[t] = "remove_wait"
    /\ LockAvailable(t)
    /\ active_games' = active_games \ {tgid[t]}
    /\ pc' = [pc EXCEPT ![t] = AfterRemove(t)]
    /\ tret' = [tret EXCEPT ![t] = FALSE]
    /\ tgid' = [tgid EXCEPT ![t] = KeptBy(t, @, "g1")]
    /\ Frame(<<lock, wins, losses, draws, game_limit, tcolor, tkind, ttmp,
               engine, sexit, sres, finalized, started, inc_done, inc_begun,
               platVars>>)

(***************************************************************************)
(* inc_result(kind), run by thread t: take the lock, `wins += 1` (a read   *)
(* of the global, then a store), return.                                   *)
(***************************************************************************)
Counter(kind) ==
    IF kind = "win" THEN wins ELSE IF kind = "loss" THEN losses ELSE draws

AfterInc(t) == IF t \in SessionThreads THEN "remove_wait" ELSE "idle"

IncAcquire(t) ==
    /\ pc[t] = "inc_wait"
    /\ LockAvailable(t)
    /\ lock' = t
    /\ pc' = [pc EXCEPT ![t] = "inc_read"]
    /\ Frame(<<active_games, wins, losses, draws, game_limit, tgid, tcolor,
               tret, tkind, ttmp, engine, sexit, sres, finalized, started,
               inc_done, inc_begun, platVars>>)

IncRead(t) ==
    /\ pc[t] = "inc_read"
    /\ ttmp' = [ttmp EXCEPT ![t] = Counter(tkind[t])]
    /\ pc' = [pc EXCEPT ![t] = "inc_write"]
    /\ Frame(<<regVars, tgid, tcolor, tret, tkind, engine, sexit, sres,
               finalized, started, inc_done, inc_begun, platVars>>)

IncWrite(t) ==
    /\ pc[t] = "inc_write"
    /\ wins' = IF tkind[t] = "win" THEN ttmp[t] + 1 ELSE wins
    /\ losses' = IF tkind[t] = "loss" THEN ttmp[t] + 1 ELSE losses
    /\ draws' = IF tkind[t] = "draw" THEN ttmp[t] + 1 ELSE draws
    /\ lock' = Released(t)
    /\ inc_done' = [inc_done EXCEPT ![tkind[t]] = @ + 1]
    /\ ttmp' = [ttmp EXCEPT ![t] = 0]
    /\ tkind' = [tkind EXCEPT ![t] = KeptBy(t, @, "none")]
    /\ pc' = [pc EXCEPT ![t] = AfterInc(t)]
    /\ Frame(<<active_games, game_limit, tgid, tcolor, tret, engine, sexit,
               sres, finalized, started, inc_begun, platVars>>)

(***************************************************************************)
(* SpecGuard: NCallers threads use the registry at the same time.  A       *)
(* caller claims a game id; one that was refused drops the start signal,   *)
(* one that claimed it later gives it back with remove_active, as the      *)
(* session it stands for does; and callers record results with inc_result. *)
(***************************************************************************)
CallClaim(c, g) ==
    /\ pc[c] = "idle"
    /\ pc' = [pc EXCEPT ![c] = "claim_wait"]
    /\ tgid' = [tgid EXCEPT ![c] = g]
    /\ Frame(<<regVars, tcolor, tret, tkind, ttmp, engine, sexit, sres,
               finalized, started, inc_done, inc_begun, platVars>>)

CallerDiscard(c) ==
    /\ pc[c] = "claim_ret"
    /\ ~tret[c]
    /\ pc' = [pc EXCEPT ![c] = "idle"]
    /\ tgid' = [tgid EXCEPT ![c] = "g1"]
    /\ Frame(<<regVars, tcolor, tret, tkind, ttmp, engine, sexit, sres,
               finalized, started, inc_done, inc_begun, platVars>>)

CallRemoveActive(c) ==
    /\ pc[c] = "claim_ret"
    /\ tret[c]
    /\ pc' = [pc EXCEPT ![c] = "remove_wait"]
    /\ Frame(<<regVars, tgid, tcolor, tret, tkind, ttmp, engine, sexit, sres,
               finalized, started, inc_done, inc_begun, platVars>>)

CallInc(c, k) ==
    /\ pc[c] = "idle"
    /\ inc_begun < MaxIncCalls
    /\ inc_begun' = inc_begun + 1
    /\ tkind' = [tkind EXCEPT ![c] = k]
    /\ pc' = [pc EXCEPT ![c] = "inc_wait"]
    /\ Frame(<<regVars, tgid, tcolor, tret, ttmp, engine, sexit, sres,
               finalized, started, inc_done, platVars>>)

NextGuard ==
    \/ \E c \in HarnessCallers, g \in GIDS : CallClaim(c, g)
    \/ \E c \in HarnessCallers : ClaimAcquire(c)
    \/ \E c \in HarnessCallers : ClaimCheck(c)
    \/ \E c \in HarnessCallers : ClaimAdd(c)
    \/ \E c \in HarnessCallers : CallerDiscard(c)
    \/ \E c \in HarnessCallers : CallRemoveActive(c)
    \/ \E c \in HarnessCallers : RemoveActive(c)
    \/ \E c \in HarnessCallers, k \in KINDS : CallInc(c, k)
    \/ \E c \in HarnessCallers : IncAcquire(c)
    \/ \E c \in HarnessCallers : IncRead(c)
    \/ \E c \in HarnessCallers : IncWrite(c)

SpecGuard == Init /\ [][NextGuard]_vars

(***************************************************************************)
(* C1.  Concurrent claim_game(gid) calls on a game id that is not in the   *)
(* registry: exactly one returns True, every other one returns False; a    *)
(* game id is in the registry for at most one holder at a time.            *)
(***************************************************************************)
Owners(g) ==
    {c \in HarnessCallers :
        tgid[c] = g /\ tret[c] /\ pc[c] \in {"claim_ret", "remove_wait"}}

ClaimExclusive ==
    \A g \in GIDS :
        Cardinality(Owners(g)) = IF g \in active_games THEN 1 ELSE 0

\* a call returns True exactly when nobody holds the game id
ClaimReturnsRight ==
    \A c \in HarnessCallers :
        (pc[c] \in {"claim_check", "claim_add"} /\ pc'[c] = "claim_ret")
            => (tret'[c] <=> Owners(tgid[c]) = {})

\* C1: exactly one of the concurrent claims of a game id succeeds, the
\* others fail, and the registry holds a game id for at most one holder.
C1_ClaimExactlyOne == []ClaimExclusive /\ [][ClaimReturnsRight]_vars

\* three callers raced for one game id: one got True, one got False, the
\* third is still waiting for the guard
C1_Witness ==
    \E c1, c2, c3 \in HarnessCallers :
        /\ tgid[c1] = tgid[c2] /\ tgid[c2] = tgid[c3]
        /\ pc[c1] = "claim_ret" /\ tret[c1]
        /\ pc[c2] = "claim_ret" /\ ~tret[c2]
        /\ pc[c3] = "claim_wait"

(***************************************************************************)
(* C7.  Under any interleaving of concurrent inc_result calls the counters *)
(* grow by exactly the number of calls made (no update is lost), and no    *)
(* counter ever decreases.                                                 *)
(***************************************************************************)
NoLostUpdate ==
    /\ wins = inc_done["win"]
    /\ losses = inc_done["loss"]
    /\ draws = inc_done["draw"]

CountersMonotone == wins' >= wins /\ losses' >= losses /\ draws' >= draws

\* C7: wins + losses + draws counts every completed inc_result call, kind
\* by kind, and the counters only grow.
C7_NoLostUpdate == []NoLostUpdate /\ [][CountersMonotone]_vars

\* two calls for the same kind overlap: one holds the guard between its read
\* and its store while the other waits for the guard
C7_Witness ==
    \E c1, c2 \in HarnessCallers :
        /\ c1 # c2
        /\ pc[c1] = "inc_write" /\ pc[c2] = "inc_wait"
        /\ tkind[c1] = tkind[c2]

(***************************************************************************)
(* _retry_call(desc, fn, ...).  An attempt of the operation either returns *)
(* or raises an error; an error is described by what the wrapper looks at: *)
(* its class, whether its text contains "429", whether its text contains   *)
(* one of the transient phrases, and the Retry-After header of its         *)
(* response (<<"none", 0>>: no response or no header, <<"bad", 0>>: not an *)
(* integer, <<"int", n>>: n seconds).                                      *)
(***************************************************************************)
ApiErrorClasses == {"ApiError", "ResponseError"}
TransientClasses == {"ConnectionError", "ReadTimeout", "ChunkedEncodingError"}

Errors ==
    {[cls |-> "ResponseError", has429 |-> TRUE, phrase |-> FALSE,
      retry_after |-> h] :
        h \in {<<"none", 0>>, <<"bad", 0>>, <<"int", 7>>}}
    \cup {[cls |-> c, has429 |-> FALSE, phrase |-> ph,
           retry_after |-> <<"none", 0>>] :
            c \in {"ResponseError", "ConnectionError", "ValueError"},
            ph \in BOOLEAN}

\* _is_transient_net_err(e)
IsTransientNetErr(e) == e.cls \in TransientClasses \/ e.phrase

\* `except (ApiError, ResponseError) as e: if "429" in str(e)`
IsRateLimit(e) == e.cls \in ApiErrorClasses /\ e.has429

\* retry_after = int(e.response.headers.get("Retry-After", retry_after)),
\* keeping backoff_429 when there is no header or it is no integer
RetryAfter(e, backoff) ==
    IF e.retry_after[1] = "int" THEN e.retry_after[2] ELSE backoff

\* backoff_429 = min(backoff_429 * 2, 1800)
NextBackoff(b) == IF b * 2 < BACKOFF_429_CAP THEN b * 2 ELSE BACKOFF_429_CAP

\* the budget test taken one failure too late
RetriesExceededLate(a) == a > MAX_NET_RETRIES + 1

\* `if attempt > MAX_NET_RETRIES: raise RuntimeError(...)`
RetriesExceeded(a) == a > MAX_NET_RETRIES

\* a rate-limit failure charged to the transient budget
AttemptAfter429Charged(a) == a + 1

\* the 429 branch leaves `attempt` alone
AttemptAfter429(a) == a

\* an error of no retried class put to sleep and retried like a transient one
OtherErrorPcRetried == "sleepnet"

\* the bare `raise` that ends both except clauses
OtherErrorPc == "raised"

\* how the latest attempt ended, as the claims name it
OutcomeKind(e) ==
    IF IsRateLimit(e) THEN "e429"
    ELSE IF IsTransientNetErr(e) THEN "transient"
    ELSE "other"

\* a thread calls _retry_call: attempt = 0, backoff_429 = 60
RetryStart ==
    /\ UNCHANGED <<regVars, threadVars, gstatus, gwinner, extVars>>
    /\ rpc = "idle"
    /\ rpc' = "try"
    /\ attempt' = 0
    /\ backoff_429' = BACKOFF_429_START
    /\ UNCHANGED <<rlast, rsleeps, ncalls, n429, ntrans, http_lock, inflight>>

\* `with _http_lock: return fn(*args, **kwargs)`: the call goes out
RetryInvoke ==
    /\ UNCHANGED <<regVars, threadVars, gstatus, gwinner, extVars>>
    /\ rpc = "try"
    /\ http_lock = Free
    /\ http_lock' = RetryCaller
    /\ inflight' = inflight \cup {<<RetryCaller, "retry_call">>}
    /\ rpc' = "fly"
    /\ ncalls' = ncalls + 1
    /\ UNCHANGED <<attempt, backoff_429, rlast, rsleeps, n429, ntrans>>

\* the operation returns: its result is returned to the caller
RetryReturn ==
    /\ UNCHANGED <<regVars, threadVars, gstatus, gwinner, extVars>>
    /\ rpc = "fly"
    /\ http_lock' = Free
    /\ inflight' = inflight \ {<<RetryCaller, "retry_call">>}
    /\ rpc' = "returned"
    /\ rlast' = "ok"
    /\ UNCHANGED <<attempt, backoff_429, rsleeps, ncalls, n429, ntrans>>

\* the operation raises e: the `with` block is left, then the handlers run
RetryFail(e) ==
    /\ UNCHANGED <<regVars, threadVars, gstatus, gwinner, extVars>>
    /\ rpc = "fly"
    /\ IsRateLimit(e) => n429 < Max429
    /\ http_lock' = Free
    /\ inflight' = inflight \ {<<RetryCaller, "retry_call">>}
    /\ rlast' = OutcomeKind(e)
    /\ n429' = IF IsRateLimit(e) THEN n429 + 1 ELSE n429
    /\ ntrans' = IF ~IsRateLimit(e) /\ IsTransientNetErr(e)
                   THEN ntrans + 1 ELSE ntrans
    /\ IF IsRateLimit(e)
         THEN /\ rsleeps' = Append(rsleeps, <<"429", RetryAfter(e, backoff_429)>>)
              /\ attempt' = AttemptAfter429(attempt)
              /\ rpc' = "sleep429"
         ELSE IF IsTransientNetErr(e)
         THEN /\ attempt' = attempt + 1
              /\ IF RetriesExceeded(attempt + 1)
                   THEN /\ rpc' = "raised_runtime"
                        /\ UNCHANGED rsleeps
                   ELSE /\ rpc' = "sleepnet"
                        /\ rsleeps' = Append(rsleeps, <<"net", RECONNECT_DELAY_SEC>>)
         ELSE /\ rpc' = OtherErrorPc
              /\ UNCHANGED <<attempt, rsleeps>>
    /\ UNCHANGED <<backoff_429, ncalls>>

\* time.sleep(retry_after) is over: backoff_429 doubles, `continue`
RetryWake429 ==
    /\ UNCHANGED <<regVars, threadVars, gstatus, gwinner, extVars>>
    /\ rpc = "sleep429"
    /\ backoff_429' = NextBackoff(backoff_429)
    /\ rpc' = "try"
    /\ UNCHANGED <<attempt, rlast, rsleeps, ncalls, n429, ntrans, http_lock,
                   inflight>>

\* time.sleep(RECONNECT_DELAY_SEC) is over: `continue`
RetryWakeNet ==
    /\ UNCHANGED <<regVars, threadVars, gstatus, gwinner, extVars>>
    /\ rpc = "sleepnet"
    /\ rpc' = "try"
    /\ UNCHANGED <<attempt, backoff_429, rlast, rsleeps, ncalls, n429, ntrans,
                   http_lock, inflight>>

NextRetry ==
    \/ RetryStart
    \/ RetryInvoke
    \/ RetryReturn
    \/ \E e \in Errors : RetryFail(e)
    \/ RetryWake429
    \/ RetryWakeNet

SpecRetry == Init /\ [][NextRetry]_vars

SleepsFor(why) == {k \in 1..Len(rsleeps) : rsleeps[k][1] = why}

(***************************************************************************)
(* C9.  A rate-limit (429) failure is always followed by a sleep and       *)
(* another attempt, however many came before; it never ends the call and   *)
(* never uses up the transient-retry budget.  A call that fails with 429   *)
(* twice and then succeeds returns the result, with a sleep before each    *)
(* new attempt.                                                            *)
(***************************************************************************)
C9_RateLimitRetriedForever ==
    /\ rlast = "e429" => rpc \in {"sleep429", "try", "fly"}
    /\ attempt = ntrans
    /\ Cardinality(SleepsFor("429")) = n429
    /\ rpc \in {"fly", "returned", "raised"} => Len(rsleeps) = ncalls - 1
    /\ rpc = "returned" => rlast = "ok"
    /\ (rpc = "returned" /\ n429 = 2 /\ ntrans = 0)
          => (ncalls = 3 /\ Len(rsleeps) = 2)

\* two rate-limit failures, no other failure, then the result is returned
C9_Witness == rpc = "returned" /\ n429 = 2 /\ ntrans = 0 /\ ncalls = 3

(***************************************************************************)
(* C10.  Transient network failures are retried after a sleep of           *)
(* RECONNECT_DELAY_SEC each, at most MAX_NET_RETRIES times; the transient  *)
(* failure after that raises the terminal failure, so the operation runs   *)
(* at most MAX_NET_RETRIES + 1 times on account of transient errors.       *)
(***************************************************************************)
C10_TransientBudget ==
    /\ ntrans <= MAX_NET_RETRIES + 1
    /\ ntrans = MAX_NET_RETRIES + 1 <=> rpc = "raised_runtime"
    /\ Cardinality(SleepsFor("net")) =
          (IF ntrans <= MAX_NET_RETRIES THEN ntrans ELSE MAX_NET_RETRIES)
    /\ \A k \in SleepsFor("net") : rsleeps[k][2] = RECONNECT_DELAY_SEC
    /\ ncalls <= n429 + MAX_NET_RETRIES + 1

\* the budget ran out: MAX_NET_RETRIES re-attempts were made and failed
C10_Witness ==
    /\ rpc = "raised_runtime"
    /\ ncalls = MAX_NET_RETRIES + 1
    /\ Cardinality(SleepsFor("net")) = MAX_NET_RETRIES

(***************************************************************************)
(* Outbound calls to the platform.  A call made through _retry_call runs   *)
(* inside `with _http_lock:`; a call made on the client directly takes no  *)
(* lock.  In Spec the retries of _retry_call are not followed: the call    *)
(* holds the lock while it is in flight and then returns or raises.        *)
(***************************************************************************)
\* `with _http_lock: return fn(...)` entered by thread t for the call `what`
HttpBegin(t, what) ==
    /\ http_lock = Free
    /\ http_lock' = t
    /\ inflight' = inflight \cup {<<t, what>>}

\* the call is over and the `with` block is left
HttpEnd(t, what) ==
    /\ http_lock' = Free
    /\ inflight' = inflight \ {<<t, what>>}

\* client.<api>(...) called directly: no lock is taken
DirectBegin(t, what) ==
    /\ inflight' = inflight \cup {<<t, what>>}
    /\ UNCHANGED http_lock

DirectEnd(t, what) ==
    /\ inflight' = inflight \ {<<t, what>>}
    /\ UNCHANGED http_lock

(***************************************************************************)
(* The platform ends a game the bot has a handler for.                     *)
(***************************************************************************)
GameEnds(g, o) ==
    /\ gstatus[g] = "started"
    /\ g \in active_games
    /\ gstatus' = [gstatus EXCEPT ![g] = o[1]]
    /\ gwinner' = [gwinner EXCEPT ![g] = o[2]]
    /\ Frame(<<active_games, lock, wins, losses, draws, game_limit, pc, tgid,
               tcolor, tret, tkind, ttmp, engine, sexit, sres, finalized,
               started, inc_done, inc_begun, http_lock, inflight>>)

(***************************************************************************)
(* event_listener.  A gameStart event for a game in progress arrives (the  *)
(* platform repeats it whenever the event stream reconnects); its `color`  *)
(* field gives my_color_init or is missing.  The listener calls            *)
(* claim_game(gid) and starts a handler thread only if that returned True. *)
(***************************************************************************)
EvGameStart(g, col) ==
    /\ pc[Listener] = "idle"
    /\ gstatus[g] = "started"
    /\ started < MaxSessions
    /\ pc' = [pc EXCEPT ![Listener] = "claim_wait"]
    /\ tgid' = [tgid EXCEPT ![Listener] = g]
    /\ tcolor' = [tcolor EXCEPT ![Listener] = col]
    /\ Frame(<<active_games, lock, wins, losses, draws, game_limit, tret,
               tkind, ttmp, engine, sexit, sres, finalized, started, inc_done,
               inc_begun, gstatus, gwinner, http_lock, inflight>>)

\* a handler thread started whatever claim_game returned
StartsHandlerAlways(claimed) == TRUE

\* `if not claim_game(gid): continue`
StartsHandler(claimed) == claimed

\* threading.Thread(target=handle_game, args=(gid, my_color_init)).start()
ListenerStartHandler ==
    /\ pc[Listener] = "claim_ret"
    /\ StartsHandler(tret[Listener])
    /\ started < MaxSessions
    /\ LET new == T(started + 1)
       IN /\ pc' = [pc EXCEPT ![Listener] = "idle", ![new] = "limit"]
          /\ tgid' = [tgid EXCEPT ![new] = tgid[Listener], ![Listener] = "g1"]
          /\ tcolor' = [tcolor EXCEPT ![new] = tcolor[Listener],
                                      ![Listener] = "none"]
    /\ tret' = [tret EXCEPT ![Listener] = FALSE]
    /\ started' = started + 1
    /\ Frame(<<active_games, lock, wins, losses, draws, game_limit, tkind,
               ttmp, engine, sexit, sres, finalized, inc_done, inc_begun,
               gstatus, gwinner, http_lock, inflight>>)

\* "Ignoring duplicate gameStart": the event is dropped
ListenerIgnoreDuplicate ==
    /\ pc[Listener] = "claim_ret"
    /\ ~StartsHandler(tret[Listener])
    /\ pc' = [pc EXCEPT ![Listener] = "idle"]
    /\ tgid' = [tgid EXCEPT ![Listener] = "g1"]
    /\ tcolor' = [tcolor EXCEPT ![Listener] = "none"]
    /\ Frame(<<active_games, lock, wins, losses, draws, game_limit, tret,
               tkind, ttmp, engine, sexit, sres, finalized, started, inc_done,
               inc_begun, gstatus, gwinner, http_lock, inflight>>)

\* a challenge event arrives: the listener will accept or decline it
EvChallenge ==
    /\ pc[Listener] = "idle"
    /\ pc' = [pc EXCEPT ![Listener] = "reply_wait"]
    /\ Frame(<<active_games, lock, wins, losses, draws, game_limit, tgid,
               tcolor, tret, tkind, ttmp, engine, sexit, sres, finalized,
               started, inc_done, inc_begun, gstatus, gwinner, http_lock,
               inflight>>)

\* _retry_call("accept_challenge" / "decline_challenge", ...)
ListenerReplyBegin ==
    /\ pc[Listener] = "reply_wait"
    /\ HttpBegin(Listener, "challenge_reply")
    /\ pc' = [pc EXCEPT ![Listener] = "reply_fly"]
    /\ Frame(<<active_games, lock, wins, losses, draws, game_limit, tgid,
               tcolor, tret, tkind, ttmp, engine, sexit, sres, finalized,
               started, inc_done, inc_begun, gstatus, gwinner>>)

ListenerReplyEnd ==
    /\ pc[Listener] = "reply_fly"
    /\ HttpEnd(Listener, "challenge_reply")
    /\ pc' = [pc EXCEPT ![Listener] = "idle"]
    /\ Frame(<<active_games, lock, wins, losses, draws, game_limit, tgid,
               tcolor, tret, tkind, ttmp, engine, sexit, sres, finalized,
               started, inc_done, inc_begun, gstatus, gwinner>>)

(***************************************************************************)
(* handle_game(game_id, my_color_init), run by the session thread T(i).    *)
(***************************************************************************)
\* a limiter that lets every session through
LimiterHasSlotAlways == TRUE

\* game_limit.acquire() returns only while the semaphore's value is positive
LimiterHasSlot == game_limit > 0

\* `with game_limit:` is entered
SessEnterLimit(i) ==
    /\ pc[T(i)] = "limit"
    /\ LimiterHasSlot
    /\ game_limit' = game_limit - 1
    /\ pc' = [pc EXCEPT ![T(i)] = "spawn"]
    /\ Frame(<<active_games, lock, wins, losses, draws, tgid, tcolor, tret,
               tkind, ttmp, engine, sexit, sres, finalized, started, inc_done,
               inc_begun, gstatus, gwinner, http_lock, inflight>>)

\* a spawn failure that leaves handle_game without its finally block
SpawnFailTargetSkipsFinally == "exit"

\* spawn_engine() raises inside `try`: except logs, then `finally` runs
SpawnFailTarget == "quit"

\* engine = spawn_engine()
SessSpawn(i, ok) ==
    /\ pc[T(i)] = "spawn"
    /\ IF ok
         THEN /\ engine' = [engine EXCEPT ![T(i)] = "live"]
              /\ pc' = [pc EXCEPT ![T(i)] = "stream"]
              /\ UNCHANGED sexit
         ELSE /\ pc' = [pc EXCEPT ![T(i)] = SpawnFailTarget]
              /\ sexit' = [sexit EXCEPT ![T(i)] = "spawn_failed"]
              /\ UNCHANGED engine
    /\ Frame(<<active_games, lock, wins, losses, draws, game_limit, tgid,
               tcolor, tret, tkind, ttmp, sres, finalized, started, inc_done,
               inc_begun, gstatus, gwinner, http_lock, inflight>>)

\* _is_terminal(event), for an event that shows the game as it is now
IsTerminal(g) == gstatus[g] \in TERMINAL_STATUSES

\* a gameFull event (the first event of the stream, and of every reconnect):
\* ensure_my_color(event); terminal -> break; else the greetings are posted
SessGameFull(i) ==
    /\ pc[T(i)] = "stream"
    /\ tcolor' = [tcolor EXCEPT ![T(i)] =
                     IF @ = "none" THEN BotColor(tgid[T(i)]) ELSE @]
    /\ IF IsTerminal(tgid[T(i)])
         THEN /\ pc' = [pc EXCEPT ![T(i)] = "quit"]
              /\ sexit' = [sexit EXCEPT ![T(i)] = "terminal_snapshot"]
              /\ UNCHANGED <<http_lock, inflight>>
         ELSE /\ pc' = [pc EXCEPT ![T(i)] = "greet1_fly"]
              /\ DirectBegin(T(i), "chat_post")
              /\ UNCHANGED sexit
    /\ Frame(<<active_games, lock, wins, losses, draws, game_limit, tgid,
               tret, tkind, ttmp, engine, sres, finalized, started, inc_done,
               inc_begun, gstatus, gwinner>>)

\* chatter.greet_players is over, chatter.greet_spectators posts
SessGreetNext(i) ==
    /\ pc[T(i)] = "greet1_fly"
    /\ pc' = [pc EXCEPT ![T(i)] = "greet2_fly"]
    /\ Frame(<<active_games, lock, wins, losses, draws, game_limit, tgid,
               tcolor, tret, tkind, ttmp, engine, sexit, sres, finalized,
               started, inc_done, inc_begun, gstatus, gwinner, http_lock,
               inflight>>)

\* the second post is over; then safe_make_move if it is the bot's turn
SessGreetEnd(i, myturn) ==
    /\ pc[T(i)] = "greet2_fly"
    /\ DirectEnd(T(i), "chat_post")
    /\ pc' = [pc EXCEPT ![T(i)] = IF myturn THEN "move_wait" ELSE "stream"]
    /\ Frame(<<active_games, lock, wins, losses, draws, game_limit, tgid,
               tcolor, tret, tkind, ttmp, engine, sexit, sres, finalized,
               started, inc_done, inc_begun, gstatus, gwinner>>)

\* a gameState event: terminal -> break; on the bot's turn it resigns a
\* hopeless position or moves (an event on the opponent's turn changes
\* nothing)
SessGameState(i, resign) ==
    /\ pc[T(i)] = "stream"
    /\ tcolor[T(i)] # "none"
    /\ IF IsTerminal(tgid[T(i)])
         THEN /\ pc' = [pc EXCEPT ![T(i)] = "quit"]
              /\ sexit' = [sexit EXCEPT ![T(i)] = "terminal_update"]
         ELSE /\ pc' = [pc EXCEPT ![T(i)] =
                           IF resign THEN "resign_wait" ELSE "move_wait"]
              /\ UNCHANGED sexit
    /\ Frame(<<active_games, lock, wins, losses, draws, game_limit, tgid,
               tcolor, tret, tkind, ttmp, engine, sres, finalized, started,
               inc_done, inc_begun, gstatus, gwinner, http_lock, inflight>>)

\* _retry_call("resign_game", client.bots.resign_game, game_id)
SessResignBegin(i) ==
    /\ pc[T(i)] = "resign_wait"
    /\ HttpBegin(T(i), "resign")
    /\ pc' = [pc EXCEPT ![T(i)] = "resign_fly"]
    /\ Frame(<<active_games, lock, wins, losses, draws, game_limit, tgid,
               tcolor, tret, tkind, ttmp, engine, sexit, sres, finalized,
               started, inc_done, inc_begun, gstatus, gwinner>>)

\* the resignation went through (the game is over, the opponent won) and
\* the loop breaks; or it raised, the error is swallowed and the bot moves
SessResignEnd(i, ok) ==
    /\ pc[T(i)] = "resign_fly"
    /\ HttpEnd(T(i), "resign")
    /\ ok => gstatus[tgid[T(i)]] = "started"
    /\ IF ok
         THEN /\ gstatus' = [gstatus EXCEPT ![tgid[T(i)]] = "resign"]
              /\ gwinner' = [gwinner EXCEPT ![tgid[T(i)]] =
                                OtherColor(BotColor(tgid[T(i)]))]
              /\ pc' = [pc EXCEPT ![T(i)] = "quit"]
              /\ sexit' = [sexit EXCEPT ![T(i)] = "resigned"]
         ELSE /\ pc' = [pc EXCEPT ![T(i)] = "move_wait"]
              /\ UNCHANGED <<gstatus, gwinner, sexit>>
    /\ Frame(<<active_games, lock, wins, losses, draws, game_limit, tgid,
               tcolor, tret, tkind, ttmp, engine, sres, finalized, started,
               inc_done, inc_begun>>)

\* safe_make_move: _retry_call("make_move(...)", client.bots.make_move, ...)
SessMoveBegin(i) ==
    /\ pc[T(i)] = "move_wait"
    /\ HttpBegin(T(i), "move")
    /\ pc' = [pc EXCEPT ![T(i)] = "move_fly"]
    /\ Frame(<<active_games, lock, wins, losses, draws, game_limit, tgid,
               tcolor, tret, tkind, ttmp, engine, sexit, sres, finalized,
               started, inc_done, inc_begun, gstatus, gwinner>>)

\* the move was sent or failed; either way the loop waits for the next event
SessMoveEnd(i) ==
    /\ pc[T(i)] = "move_fly"
    /\ HttpEnd(T(i), "move")
    /\ pc' = [pc EXCEPT ![T(i)] = "stream"]
    /\ Frame(<<active_games, lock, wins, losses, draws, game_limit, tgid,
               tcolor, tret, tkind, ttmp, engine, sexit, sres, finalized,
               started, inc_done, inc_begun, gstatus, gwinner>>)

\* an exception that `except Exception` does not catch leaves the loop
SessLoopEscape(i) ==
    /\ pc[T(i)] = "stream"
    /\ pc' = [pc EXCEPT ![T(i)] = "quit"]
    /\ sexit' = [sexit EXCEPT ![T(i)] = "escaped"]
    /\ Frame(<<active_games, lock, wins, losses, draws, game_limit, tgid,
               tcolor, tret, tkind, ttmp, engine, sres, finalized, started,
               inc_done, inc_begun, gstatus, gwinner, http_lock, inflight>>)

\* finally: engine.quit() if there is an engine, then finalize_game(game_id,
\* my_color) starts with client.games.export(game_id), called directly
SessQuitAndExport(i) ==
    /\ pc[T(i)] = "quit"
    /\ engine' = [engine EXCEPT ![T(i)] = IF @ = "live" THEN "quit" ELSE @]
    /\ finalized' = [finalized EXCEPT ![T(i)] = @ + 1]
    /\ DirectBegin(T(i), "export")
    /\ pc' = [pc EXCEPT ![T(i)] = "export_fly"]
    /\ Frame(<<active_games, lock, wins, losses, draws, game_limit, tgid,
               tcolor, tret, tkind, ttmp, sexit, sres, started, inc_done,
               inc_begun, gstatus, gwinner>>)

COUNTED_STATUSES ==
    {"mate", "resign", "timeout", "outoftime", "abandoned", "nostart"}

\* finalize_game: the kind passed to inc_result ("none": no call), from the
\* exported status and winner and the session's my_color
ResultKind(status, winner, color) ==
    IF status \in COUNTED_STATUSES
      THEN IF winner = "none" THEN "draw"
           ELSE IF (winner = "white" /\ color = "white")
                   \/ (winner = "black" /\ color = "black")
                  THEN "win" ELSE "loss"
      ELSE IF status = "draw" \/ winner = "none" THEN "draw" ELSE "none"

\* the export answers with the game's status and winner, or raises and the
\* error is swallowed; then inc_result(kind) is called, or not
SessExportEnd(i, ok) ==
    /\ pc[T(i)] = "export_fly"
    /\ DirectEnd(T(i), "export")
    /\ LET res == IF ok THEN <<gstatus[tgid[T(i)]], gwinner[tgid[T(i)]]>>
                  ELSE <<"error", "none">>
           kind == IF ok THEN ResultKind(res[1], res[2], tcolor[T(i)])
                   ELSE "none"
       IN /\ sres' = [sres EXCEPT ![T(i)] = res]
          /\ tkind' = [tkind EXCEPT ![T(i)] = kind]
          /\ inc_begun' = IF kind = "none" THEN inc_begun ELSE inc_begun + 1
          /\ pc' = [pc EXCEPT ![T(i)] =
                       IF kind = "none" THEN "remove_wait" ELSE "inc_wait"]
    /\ Frame(<<active_games, lock, wins, losses, draws, game_limit, tgid,
               tcolor, tret, ttmp, engine, sexit, finalized, started,
               inc_done, gstatus, gwinner>>)

\* handle_game returns (or the escaped exception goes on): `with game_limit`
\* is left and the thread ends
SessLeaveLimit(i) ==
    /\ pc[T(i)] = "exit"
    /\ game_limit' = game_limit + 1
    /\ pc' = [pc EXCEPT ![T(i)] = "done"]
    /\ tgid' = [tgid EXCEPT ![T(i)] = "g1"]
    /\ tcolor' = [tcolor EXCEPT ![T(i)] = "none"]
    /\ tkind' = [tkind EXCEPT ![T(i)] = "none"]
    /\ engine' = [engine EXCEPT ![T(i)] = "none"]
    /\ sexit' = [sexit EXCEPT ![T(i)] = "none"]
    /\ sres' = [sres EXCEPT ![T(i)] = NoResult]
    /\ Frame(<<active_games, lock, wins, losses, draws, tret, ttmp, finalized,
               started, inc_done, inc_begun, gstatus, gwinner, http_lock,
               inflight>>)

Next ==
    \/ \E g \in GIDS, o \in Outcomes : GameEnds(g, o)
    \/ \E g \in GIDS : \E col \in {BotColor(g), "none"} : EvGameStart(g, col)
    \/ ClaimAcquire(Listener)
    \/ ClaimCheck(Listener)
    \/ ClaimAdd(Listener)
    \/ ListenerStartHandler
    \/ ListenerIgnoreDuplicate
    \/ EvChallenge
    \/ ListenerReplyBegin
    \/ ListenerReplyEnd
    \/ \E i \in Slots : SessEnterLimit(i)
    \/ \E i \in Slots, ok \in BOOLEAN : SessSpawn(i, ok)
    \/ \E i \in Slots : SessGameFull(i)
    \/ \E i \in Slots : SessGreetNext(i)
    \/ \E i \in Slots, myturn \in BOOLEAN : SessGreetEnd(i, myturn)
    \/ \E i \in Slots, resign \in BOOLEAN : SessGameState(i, resign)
    \/ \E i \in Slots : SessResignBegin(i)
    \/ \E i \in Slots, ok \in BOOLEAN : SessResignEnd(i, ok)
    \/ \E i \in Slots : SessMoveBegin(i)
    \/ \E i \in Slots : SessMoveEnd(i)
    \/ \E i \in Slots : SessLoopEscape(i)
    \/ \E i \in Slots : SessQuitAndExport(i)
    \/ \E i \in Slots, ok \in BOOLEAN : SessExportEnd(i, ok)
    \/ \E i \in Slots : IncAcquire(T(i))
    \/ \E i \in Slots : IncRead(T(i))
    \/ \E i \in Slots : IncWrite(T(i))
    \/ \E i \in Slots : RemoveActive(T(i))
    \/ \E i \in Slots : SessLeaveLimit(i)

Spec == Init /\ [][Next]_vars

(***************************************************************************)
(* C2.  A gameStart event whose game id is already in the registry starts  *)
(* no handler thread and leaves the registry unchanged; between a          *)
(* successful claim and the finalization of the session it started there   *)
(* is at most one session per game id.                                     *)
(***************************************************************************)
\* a session holds its claim from the start of its thread to remove_active
LivePcs ==
    {"limit", "spawn", "stream", "greet1_fly", "greet2_fly", "resign_wait",
     "resign_fly", "move_wait", "move_fly", "quit", "export_fly", "inc_wait",
     "inc_read", "inc_write", "remove_wait"}

SessionsOf(g) == {i \in Slots : pc[T(i)] \in LivePcs /\ tgid[T(i)] = g}

\* the listener has claimed g and is about to start the handler thread
ListenerHolds(g) ==
    pc[Listener] = "claim_ret" /\ tret[Listener] /\ tgid[Listener] = g

OneSessionPerGame ==
    \A g \in GIDS :
        Cardinality(SessionsOf(g)) + (IF ListenerHolds(g) THEN 1 ELSE 0)
            = IF g \in active_games THEN 1 ELSE 0

SessionPcsUnchanged == \A i \in Slots : pc'[T(i)] = pc[T(i)]

DuplicateIgnored ==
    /\ (pc[Listener] = "claim_check" /\ tgid[Listener] \in active_games
            /\ pc'[Listener] # "claim_check")
         => /\ pc'[Listener] = "claim_ret" /\ ~tret'[Listener]
            /\ active_games' = active_games
            /\ started' = started
            /\ SessionPcsUnchanged
    /\ (pc[Listener] = "claim_ret" /\ ~tret[Listener]
            /\ pc'[Listener] # "claim_ret")
         => /\ pc'[Listener] = "idle"
            /\ active_games' = active_games
            /\ started' = started
            /\ SessionPcsUnchanged

\* C2: a gameStart for a game id that is in the registry is dropped (no
\* thread is started, the registry stays as it is), and every game id in
\* the registry has exactly one session, or the claim that is starting one.
C2_DuplicateStartIgnored == []OneSessionPerGame /\ [][DuplicateIgnored]_vars

\* the listener was refused the claim of a game whose session is running
C2_Witness ==
    /\ pc[Listener] = "claim_ret" /\ ~tret[Listener]
    /\ SessionsOf(tgid[Listener]) # {}
    /\ tgid[Listener] \in active_games

(***************************************************************************)
(* C3.  The sessions that have passed the admission limiter and have not   *)
(* left it number at most MAX_ACTIVE_GAMES; a session arriving when every  *)
(* slot is taken waits; the slot is given back on every way out.           *)
(***************************************************************************)
InsidePcs == (LivePcs \ {"limit"}) \cup {"exit"}

Inside == {i \in Slots : pc[T(i)] \in InsidePcs}

LimiterBound ==
    /\ Cardinality(Inside) <= MAX_ACTIVE_GAMES
    /\ game_limit = MAX_ACTIVE_GAMES - Cardinality(Inside)

EntersOnlyWithFreeSlot ==
    \A i \in Slots :
        (pc[T(i)] = "limit" /\ pc'[T(i)] # "limit")
            => Cardinality(Inside) < MAX_ACTIVE_GAMES

\* C3: at most MAX_ACTIVE_GAMES sessions are inside `with game_limit`, the
\* semaphore counts exactly the free slots (a session that is done has given
\* its slot back, whichever way it left), and a session enters only when a
\* slot is free.
C3_AdmissionLimit == []LimiterBound /\ [][EntersOnlyWithFreeSlot]_vars

\* a session is waiting at the limiter while every slot is taken
C3_Witness ==
    \E i, j \in Slots :
        /\ pc[T(i)] = "limit"
        /\ pc[T(j)] \in InsidePcs
        /\ game_limit = 0

(***************************************************************************)
(* C4.  finalize_game runs exactly once per session, whichever way the     *)
(* session loop is left: a terminal snapshot, a terminal update, a         *)
(* resignation that went through, a failed engine spawn, or an exception   *)
(* that escapes the loop.                                                  *)
(***************************************************************************)
ExitPaths ==
    {"terminal_snapshot", "terminal_update", "resigned", "spawn_failed",
     "escaped"}

FinalizingPcs ==
    {"export_fly", "inc_wait", "inc_read", "inc_write", "remove_wait"}

FinalizedOnce ==
    \A i \in Slots :
        /\ finalized[T(i)] <= 1
        /\ pc[T(i)] \in FinalizingPcs \cup {"exit", "done"}
              => finalized[T(i)] = 1
        /\ pc[T(i)] \in FinalizingPcs \cup {"quit", "exit"}
              <=> sexit[T(i)] \in ExitPaths
        /\ pc[T(i)] \notin FinalizingPcs \cup {"exit", "done"}
              => finalized[T(i)] = 0

LoopExitReachesFinally ==
    \A i \in Slots :
        (sexit[T(i)] = "none" /\ sexit'[T(i)] # "none") => pc'[T(i)] = "quit"

\* C4: every way of leaving the session loop leads to the finally block, a
\* session between the start of finalize_game and the end of its thread has
\* run finalize_game exactly once, and no session runs it a second time.
C4_FinalizeExactlyOnce == []FinalizedOnce /\ [][LoopExitReachesFinally]_vars

\* a session whose engine failed to start has left finalize_game, and the
\* session before it, which left its loop another way, is done
C4_Witness ==
    \E i, j \in Slots :
        /\ pc[T(i)] = "exit" /\ sexit[T(i)] = "spawn_failed"
        /\ finalized[T(i)] = 1
        /\ pc[T(j)] = "done" /\ finalized[T(j)] = 1

(***************************************************************************)
(* C5.  A session that saw a terminal status event ends its loop, and its  *)
(* finalization adds one to exactly one of wins, losses and draws.         *)
(***************************************************************************)
\* C5: a session that left its loop on a terminal status has, at the end of
\* finalize_game, recorded one result (inc_result was called with a kind).
C5_TerminalCountsOne ==
    \A i \in Slots :
        (pc[T(i)] = "exit"
            /\ sexit[T(i)] \in {"terminal_snapshot", "terminal_update"})
          => tkind[T(i)] \in KINDS

(***************************************************************************)
(* C6.  After a session has left, by any path, its engine (if one was      *)
(* started) is terminated, and the outcome it recorded is a win when the   *)
(* winner the platform reports has the session's colour, a loss when it    *)
(* has the other colour, a draw when no winner is reported.                *)
(***************************************************************************)
OutcomeByWinner(winner, color) ==
    IF winner = "none" THEN "draw"
    ELSE IF winner = color THEN "win" ELSE "loss"

\* C6: at the end of finalize_game the engine is not running and the
\* recorded kind is the one the reported winner and the bot's colour give.
C6_TeardownRecordsOutcome ==
    \A i \in Slots :
        pc[T(i)] = "exit"
          => /\ engine[T(i)] # "live"
             /\ tkind[T(i)] =
                   OutcomeByWinner(sres[T(i)][2], BotColor(tgid[T(i)]))

(***************************************************************************)
(* C8.  No two outbound calls to the platform are in flight at the same    *)
(* time: every call goes through _retry_call and runs under _http_lock.    *)
(***************************************************************************)
\* C8: at most one outbound platform call is in flight.
C8_OneCallInFlight == Cardinality(inflight) <= 1

(***************************************************************************)
(* C11.  In _retry_call an error that is neither a rate-limit signal nor   *)
(* transient goes to the caller the first time it occurs: no sleep, no     *)
(* further attempt of the operation.                                       *)
(***************************************************************************)
OtherErrorEndsCall ==
    /\ rlast = "other" => rpc = "raised"
    /\ rpc = "raised" => (rlast = "other" /\ Len(rsleeps) = ncalls - 1)

NothingAfterRaise ==
    /\ (rpc = "fly" /\ rlast' = "other")
          => (rsleeps' = rsleeps /\ ncalls' = ncalls /\ rpc' = "raised")
    /\ rpc = "raised" => UNCHANGED <<rpc, rsleeps, ncalls>>

\* C11: an attempt that ends with an error of no retried class ends the call
\* with that error; no sleep is made for it and the operation is not called
\* again.
C11_OtherErrorPropagates == []OtherErrorEndsCall /\ [][NothingAfterRaise]_vars

\* the first attempt failed with such an error and the call is over
C11_Witness ==
    rpc = "raised" /\ rlast = "other" /\ ncalls = 1 /\ rsleeps = <<>>

(***************************************************************************)
(* The reconnecting stream adapters: stream_incoming_events_forever and    *)
(* stream_game_state_with_reconnect.  Each is a generator around           *)
(* `while True: try: for ev in <feed>: yield ev`.  The underlying feed     *)
(* yields events, ends cleanly, or raises.                                 *)
(***************************************************************************)
Adapters == {"incoming", "game"}

\* what the feed raises: a berserk ResponseError, a transient network error,
\* any other Exception
FeedErrors == {"ResponseError", "transient", "other"}

\* client.bots.stream_incoming_events() / stream_game_state(game_id) is called
StreamOpen(a) ==
    /\ apc[a] = "open"
    /\ aopens[a] < MaxOpens
    /\ aopens' = [aopens EXCEPT ![a] = @ + 1]
    /\ apc' = [apc EXCEPT ![a] = "iter"]
    /\ UNCHANGED <<aend, await, ayields>>
    /\ UNCHANGED <<coreVars, moveVars, rescueVars, admitVars, throttleVars,
                 fenVars, cacheVars, jobVars, loopVars, timeVars, bookVars,
                 guardLoopVars, paceVars>>

\* `yield ev`: the consumer takes the event and asks for the next one
StreamYield(a) ==
    /\ apc[a] = "iter"
    /\ ayields[a] < MaxYields
    /\ ayields' = [ayields EXCEPT ![a] = @ + 1]
    /\ UNCHANGED <<apc, aend, await, aopens>>
    /\ UNCHANGED <<coreVars, moveVars, rescueVars, admitVars, throttleVars,
                 fenVars, cacheVars, jobVars, loopVars, timeVars, bookVars,
                 guardLoopVars, paceVars>>

\* the feed raises e: every except clause ends with
\* time.sleep(RECONNECT_DELAY_SEC)
StreamError(a, e) ==
    /\ apc[a] = "iter"
    /\ aend' = [aend EXCEPT ![a] = "error"]
    /\ await' = [await EXCEPT ![a] = RECONNECT_DELAY_SEC]
    /\ apc' = [apc EXCEPT ![a] = "sleep"]
    /\ UNCHANGED <<aopens, ayields>>
    /\ UNCHANGED <<coreVars, moveVars, rescueVars, admitVars, throttleVars,
                 fenVars, cacheVars, jobVars, loopVars, timeVars, bookVars,
                 guardLoopVars, paceVars>>

\* after a clean end the game adapter sleeps ("clean end (rare)"); the
\* incoming adapter has no statement after its for loop
CleanEndSleep(a) == IF a = "game" THEN RECONNECT_DELAY_SEC ELSE 0

\* the feed's iteration ends without an error
StreamCleanEnd(a) ==
    /\ apc[a] = "iter"
    /\ aend' = [aend EXCEPT ![a] = "clean"]
    /\ await' = [await EXCEPT ![a] = CleanEndSleep(a)]
    /\ apc' = [apc EXCEPT ![a] = IF CleanEndSleep(a) > 0 THEN "sleep" ELSE "open"]
    /\ UNCHANGED <<aopens, ayields>>
    /\ UNCHANGED <<coreVars, moveVars, rescueVars, admitVars, throttleVars,
                 fenVars, cacheVars, jobVars, loopVars, timeVars, bookVars,
                 guardLoopVars, paceVars>>

\* the sleep is over: `while True` starts the next round
StreamWake(a) ==
    /\ apc[a] = "sleep"
    /\ apc' = [apc EXCEPT ![a] = "open"]
    /\ UNCHANGED <<aend, await, aopens, ayields>>
    /\ UNCHANGED <<coreVars, moveVars, rescueVars, admitVars, throttleVars,
                 fenVars, cacheVars, jobVars, loopVars, timeVars, bookVars,
                 guardLoopVars, paceVars>>

NextStream ==
    \/ \E a \in Adapters : StreamOpen(a)
    \/ \E a \in Adapters : StreamYield(a)
    \/ \E a \in Adapters, e \in FeedErrors : StreamError(a, e)
    \/ \E a \in Adapters : StreamCleanEnd(a)
    \/ \E a \in Adapters : StreamWake(a)

SpecStream == Init /\ [][NextStream]_vars

(***************************************************************************)
(* C12.  Neither adapter ends on its own, and after every error and every  *)
(* clean end of the feed it waits RECONNECT_DELAY_SEC before it opens the  *)
(* feed again.                                                             *)
(***************************************************************************)
\* C12: an adapter about to re-open its feed has slept RECONNECT_DELAY_SEC
\* since the feed ended, and an adapter is always opening, iterating or
\* sleeping.
C12_WaitBeforeReopen ==
    \A a \in Adapters :
        /\ apc[a] \in {"open", "iter", "sleep"}
        /\ (apc[a] = "open" /\ aend[a] # "none")
              => await[a] = RECONNECT_DELAY_SEC

(***************************************************************************)
(* safe_make_move: the per-move pipeline.  A call is described by what the *)
(* pipeline looks at: the remaining clock time sec_left (<<"none", 0>>:    *)
(* my_ms is None; <<"sec", n>>: n tenths of a second) and whether cur_ply  *)
(* is within BOOK_PLIES.  Each step's outcome (engine, book, table probe,  *)
(* submission) is chosen by the environment.                               *)
(***************************************************************************)
\* ultra_panic = sec_left <= 2.0, in tenths of a second
ULTRA_PANIC_DS == 20
\* hard_panic = sec_left <= 12.0, in tenths of a second
HARD_PANIC_DS == 120

SecLefts ==
    {<<"none", 0>>} \cup
    {<<"sec", n>> : n \in {15, ULTRA_PANIC_DS, ULTRA_PANIC_DS + 1,
                           HARD_PANIC_DS, HARD_PANIC_DS + 1}}

UltraPanic(sec) == sec[1] = "sec" /\ sec[2] <= ULTRA_PANIC_DS
HardPanic(sec) == sec[1] = "sec" /\ sec[2] <= HARD_PANIC_DS

\* the first step of the pipeline: 0) ultra panic, 1) hard panic, 2) book
\* if cur_ply <= BOOK_PLIES, else 3) the table probe
FirstStep(sec, inbook) ==
    IF UltraPanic(sec) THEN "ultra"
    ELSE IF HardPanic(sec) THEN "hard"
    ELSE IF inbook THEN "book" ELSE "tb"

StepPc(step) == IF step = "ultra" THEN "micro" ELSE step

\* handle_game calls safe_make_move(game_id, board, engine, my_ms, ...)
MoveCall(sec, inbook) ==
    /\ mpc = "idle"
    /\ mloop = "stream"
    /\ msec' = sec
    /\ mbook' = inbook
    /\ msteps' = <<FirstStep(sec, inbook)>>
    /\ mpc' = StepPc(FirstStep(sec, inbook))
    /\ msrc' = "none"
    /\ mproduced' = "none"
    /\ msubmits' = 0
    /\ mresigns' = 0
    /\ mpushed' = 0
    /\ mrej' = 0
    /\ mret' = "none"
    /\ mloop' = "moving"
    /\ UNCHANGED <<coreVars, streamVars, rescueVars, admitVars, throttleVars,
                 fenVars, cacheVars, jobVars, loopVars, timeVars, bookVars,
                 guardLoopVars, paceVars>>

\* a step produced the move mv: it is submitted with _retry_call(make_move)
Produce(step) ==
    /\ mpc' = "submit"
    /\ msrc' = step
    /\ mproduced' = IF mproduced = "none" THEN step ELSE mproduced

\* _micro_fallback_move: engine.play(nodes=2000), or the first legal move if
\* that raises; no move at all -> resign
StepMicro(out) ==
    /\ mpc = "micro"
    /\ IF out = "move"
         THEN Produce(msteps[Len(msteps)])
         ELSE /\ mpc' = "resign"
              /\ UNCHANGED <<msrc, mproduced>>
    /\ UNCHANGED <<msec, mbook, msteps, msubmits, mresigns, mpushed, mrej,
                   mret, mloop>>
    /\ UNCHANGED <<coreVars, streamVars, rescueVars, admitVars, throttleVars,
                 fenVars, cacheVars, jobVars, loopVars, timeVars, bookVars,
                 guardLoopVars, paceVars>>

\* 1) hard panic: engine.play(time=0.06); an error or an empty result goes
\* to _micro_fallback_move
StepHard(out) ==
    /\ mpc = "hard"
    /\ IF out = "move"
         THEN /\ Produce("hard")
              /\ UNCHANGED msteps
         ELSE /\ mpc' = "micro"
              /\ msteps' = Append(msteps, "micro")
              /\ UNCHANGED <<msrc, mproduced>>
    /\ UNCHANGED <<msec, mbook, msubmits, mresigns, mpushed, mrej, mret,
                   mloop>>
    /\ UNCHANGED <<coreVars, streamVars, rescueVars, admitVars, throttleVars,
                 fenVars, cacheVars, jobVars, loopVars, timeVars, bookVars,
                 guardLoopVars, paceVars>>

\* 2) _find_book_move: a move, or None (no readers, no entry, find_all
\* raising)
StepBook(out) ==
    /\ mpc = "book"
    /\ IF out = "move"
         THEN /\ Produce("book")
              /\ UNCHANGED msteps
         ELSE /\ mpc' = "tb"
              /\ msteps' = Append(msteps, "tb")
              /\ UNCHANGED <<msrc, mproduced>>
    /\ UNCHANGED <<msec, mbook, msubmits, mresigns, mpushed, mrej, mret,
                   mloop>>
    /\ UNCHANGED <<coreVars, streamVars, rescueVars, admitVars, throttleVars,
                 fenVars, cacheVars, jobVars, loopVars, timeVars, bookVars,
                 guardLoopVars, paceVars>>

\* 3) engine.analyse(depth=1): a table hit with a pv, no hit, or an error
\* (logged by `except Exception`)
StepTB(out) ==
    /\ mpc = "tb"
    /\ IF out = "hit"
         THEN /\ Produce("tb")
              /\ UNCHANGED msteps
         ELSE /\ mpc' = "normal"
              /\ msteps' = Append(msteps, "normal")
              /\ UNCHANGED <<msrc, mproduced>>
    /\ UNCHANGED <<msec, mbook, msubmits, mresigns, mpushed, mrej, mret,
                   mloop>>
    /\ UNCHANGED <<coreVars, streamVars, rescueVars, admitVars, throttleVars,
                 fenVars, cacheVars, jobVars, loopVars, timeVars, bookVars,
                 guardLoopVars, paceVars>>

\* 4) normal search: probe_engine_with_cache, engine.play if that raises.
\* "move": a move; "nomove": a result without a move; "fail": both raised
StepNormal(out) ==
    /\ mpc = "normal"
    /\ IF out = "move"
         THEN /\ Produce("normal")
              /\ UNCHANGED mret
         ELSE IF out = "nomove"
         THEN /\ mpc' = "resign"
              /\ UNCHANGED <<msrc, mproduced, mret>>
         ELSE /\ mpc' = "done"
              /\ mret' = "fail"
              /\ UNCHANGED <<msrc, mproduced>>
    /\ UNCHANGED <<msec, mbook, msteps, msubmits, mresigns, mpushed, mrej,
                   mloop>>
    /\ UNCHANGED <<coreVars, streamVars, rescueVars, admitVars, throttleVars,
                 fenVars, cacheVars, jobVars, loopVars, timeVars, bookVars,
                 guardLoopVars, paceVars>>

\* an exception of the submission that is no ResponseError: inside the table
\* probe's try it is caught by `except Exception` of the probe, and the
\* pipeline goes on; anywhere else it reaches safe_make_move's own except
AfterSubmitRaise(step) == IF step = "tb" THEN "normal" ELSE "done"

\* the board pushed before the submission is known to be accepted
PushedOnRejected(out) == 1

\* board.push(mv) comes after _retry_call(make_move) has returned
PushedOn(out) == IF out = "ok" THEN 1 ELSE 0

\* _retry_call("make_move(...)") returns ("ok"), raises a ResponseError with
\* "not your turn" / "game already over" ("benign"), another ResponseError
\* ("rejected"), or another exception ("raise")
MoveSubmit(out) ==
    /\ mpc = "submit"
    /\ msubmits' = msubmits + 1
    /\ mpushed' = mpushed + PushedOn(out)
    /\ mrej' = IF out = "benign" THEN msubmits + 1 ELSE mrej
    /\ IF out = "raise" /\ AfterSubmitRaise(msrc) = "normal"
         THEN /\ mpc' = "normal"
              /\ msteps' = Append(msteps, "normal")
              /\ UNCHANGED mret
         ELSE /\ mpc' = "done"
              /\ mret' = IF out = "ok" THEN "ok" ELSE "fail"
              /\ UNCHANGED msteps
    /\ UNCHANGED <<msec, mbook, msrc, mproduced, mresigns, mloop>>
    /\ UNCHANGED <<coreVars, streamVars, rescueVars, admitVars, throttleVars,
                 fenVars, cacheVars, jobVars, loopVars, timeVars, bookVars,
                 guardLoopVars, paceVars>>

\* _retry_call("resign_game(no-move)"): sent, or its error swallowed; the
\* pipeline returns failure
MoveResign(ok) ==
    /\ mpc = "resign"
    /\ mresigns' = mresigns + 1
    /\ mpc' = "done"
    /\ mret' = "fail"
    /\ UNCHANGED <<msec, mbook, msteps, msrc, mproduced, msubmits, mpushed,
                   mrej, mloop>>
    /\ UNCHANGED <<coreVars, streamVars, rescueVars, admitVars, throttleVars,
                 fenVars, cacheVars, jobVars, loopVars, timeVars, bookVars,
                 guardLoopVars, paceVars>>

\* a session loop that a failed move would end
AfterMoveQuitOnFail(ret) == IF ret = "ok" THEN "stream" ELSE "quit"

\* handle_game: `ok, engine = safe_make_move(...)`; ok is not looked at and
\* the loop takes the next event
AfterMove(ret) == "stream"

MoveReturn ==
    /\ mpc = "done"
    /\ mpc' = "idle"
    /\ mloop' = AfterMove(mret)
    /\ UNCHANGED <<msec, mbook, msteps, msrc, mproduced, msubmits, mresigns,
                   mpushed, mrej, mret>>
    /\ UNCHANGED <<coreVars, streamVars, rescueVars, admitVars, throttleVars,
                 fenVars, cacheVars, jobVars, loopVars, timeVars, bookVars,
                 guardLoopVars, paceVars>>

NextMove ==
    \/ \E sec \in SecLefts, inbook \in BOOLEAN : MoveCall(sec, inbook)
    \/ \E out \in {"move", "nomove"} : StepMicro(out)
    \/ \E out \in {"move", "nomove", "raise"} : StepHard(out)
    \/ \E out \in {"move", "nomove"} : StepBook(out)
    \/ \E out \in {"hit", "nohit", "raise"} : StepTB(out)
    \/ \E out \in {"move", "nomove", "fail"} : StepNormal(out)
    \/ \E out \in {"ok", "benign", "rejected", "raise"} : MoveSubmit(out)
    \/ \E ok \in BOOLEAN : MoveResign(ok)
    \/ MoveReturn

SpecMove == Init /\ [][NextMove]_vars

(***************************************************************************)
(* C13.  The steps run in the order ultra panic, hard panic, book, table   *)
(* probe, normal search; the first step that produces a move ends the      *)
(* pipeline; with sec_left <= 2 s only the ultra-panic branch runs.        *)
(***************************************************************************)
StepRank(step) ==
    CASE step = "ultra" -> 0
      [] step = "hard" -> 1
      [] step = "micro" -> 2
      [] step = "book" -> 3
      [] step = "tb" -> 4
      [] OTHER -> 5

InStrictOrder ==
    \A k \in 1..(Len(msteps) - 1) : StepRank(msteps[k]) < StepRank(msteps[k + 1])

UltraPanicOnly == UltraPanic(msec) => msteps \in {<<>>, <<"ultra">>}

\* C13: the steps invoked are in the strict order, at sec_left <= 2 s only
\* the ultra-panic branch is invoked, and once a step has produced a move no
\* later step is invoked.
C13_StrictPipelineOrder ==
    /\ InStrictOrder
    /\ UltraPanicOnly
    /\ (mproduced # "none" /\ Len(msteps) > 0)
          => msteps[Len(msteps)] = mproduced

(***************************************************************************)
(* C14.  A step that produces no move falls through to the next one: a     *)
(* book step without a move is followed by the table probe and the normal  *)
(* search; and if no step produces a move, a resignation is submitted.     *)
(***************************************************************************)
\* C14: after a book step without a move the table probe has run (and the
\* normal search after a probe without a hit), and a call that returned with
\* no step having produced a move has submitted a resignation.
C14_FallThroughOrResign ==
    /\ (Len(msteps) > 0 /\ msteps[1] = "book" /\ mpc \notin {"book", "submit"}
            /\ mproduced # "book")
          => (Len(msteps) >= 2 /\ msteps[2] = "tb")
    /\ (mret # "none" /\ mproduced = "none") => mresigns = 1

(***************************************************************************)
(* C15.  A submission rejected with "not your turn" / "game already over"  *)
(* is not retried, the local board stays as it was, safe_make_move returns *)
(* failure, and the session goes on consuming events.                      *)
(***************************************************************************)
\* C15: after such a rejection no further submission (move or resignation)
\* is made, nothing has been pushed on the board, the call returns failure
\* and the session loop continues; a move is pushed only for an accepted
\* submission.
C15_BenignRejection ==
    /\ mrej > 0
          => /\ mpc \in {"done", "idle"}
             /\ mret = "fail"
             /\ mpushed = 0
             /\ msubmits = mrej
             /\ mresigns = 0
    /\ mpushed = (IF mret = "ok" THEN 1 ELSE 0)
    /\ mloop \in {"stream", "moving"}
    /\ mpc = "idle" => mloop = "stream"

\* the call whose table-probe move was rejected as a benign race has
\* returned failure and the session is back in its loop
C15_Witness ==
    /\ mrej = 1 /\ msrc = "tb" /\ mpc = "idle" /\ mret = "fail"
    /\ mloop = "stream" /\ mpushed = 0

(***************************************************************************)
(* play_or_rescue(engine, board, limit, sec_left): engine.play with one    *)
(* rescue attempt on a fresh engine.  A call is described by sec_left      *)
(* (<<"none", 0>> or <<"sec", n>>, n in tenths of a second), the limit     *)
(* (<<"time", ms>>, <<"depth", d>> or <<"nodes", n>>) and the configured   *)
(* ENGINE_MAX_RETRIES; the engine's and the spawn's outcomes are chosen by *)
(* the environment.                                                        *)
(***************************************************************************)
\* RETRY_DELAY_S + guard_extra = 5.0 + (2.5 * 0.06 + 0.25) s, in tenths
RESCUE_MIN_DS == 54
\* max(0.02, ...) s, in milliseconds
MIN_LIMIT_MS == 20

RescueSecLefts ==
    {<<"none", 0>>, <<"sec", 10>>, <<"sec", RESCUE_MIN_DS>>,
     <<"sec", RESCUE_MIN_DS + 1>>}

RescueLimits ==
    {<<"time", 30>>, <<"time", 60>>, <<"time", 400>>, <<"depth", 12>>,
     <<"nodes", 2000>>}

RetryBudgets == {0, 1, 2}

\* a rescue attempted whatever the clock says
CanWaitIgnoresClock(sec) == TRUE

\* can_wait = (sec_left is not None) and (sec_left > RETRY_DELAY_S + guard_extra)
CanWait(sec) == sec[1] = "sec" /\ sec[2] > RESCUE_MIN_DS

\* Limit(time=max(0.02, limit.time * 0.5)) if the limit has a time, else the
\* limit as it is
Halved(limit) ==
    IF limit[1] = "time"
      THEN <<"time", IF limit[2] \div 2 > MIN_LIMIT_MS THEN limit[2] \div 2
                     ELSE MIN_LIMIT_MS>>
      ELSE limit

RescueCall(sec, budget, limit) ==
    /\ qpc = "idle"
    /\ qpc' = "first"
    /\ qsec' = sec
    /\ qbudget' = budget
    /\ qlimit' = limit
    /\ qnewlimit' = limit
    /\ qops' = <<>>
    /\ qold' = "live"
    /\ qnew' = "none"
    /\ qret' = "none"
    /\ UNCHANGED <<coreVars, streamVars, moveVars, admitVars, throttleVars,
                 fenVars, cacheVars, jobVars, loopVars, timeVars, bookVars,
                 guardLoopVars, paceVars>>

\* First attempt: engine.play(board, limit) returns, or raises and the
\* rescue is decided: `if not can_wait or ENGINE_MAX_RETRIES <= 0: return None`
RescueFirst(ok) ==
    /\ qpc = "first"
    /\ IF ok
         THEN qpc' = "done" /\ qret' = "result"
         ELSE IF ~CanWait(qsec) \/ qbudget <= 0
         THEN qpc' = "done" /\ qret' = "noresult"
         ELSE qpc' = "quit" /\ qret' = qret
    /\ UNCHANGED <<qsec, qbudget, qlimit, qnewlimit, qops, qold, qnew>>
    /\ UNCHANGED <<coreVars, streamVars, moveVars, admitVars, throttleVars,
                 fenVars, cacheVars, jobVars, loopVars, timeVars, bookVars,
                 guardLoopVars, paceVars>>

\* engine.quit(), its errors ignored
RescueQuit ==
    /\ qpc = "quit"
    /\ qold' = "quit"
    /\ qops' = Append(qops, "quit")
    /\ qpc' = "spawn"
    /\ UNCHANGED <<qsec, qbudget, qlimit, qnewlimit, qnew, qret>>
    /\ UNCHANGED <<coreVars, streamVars, moveVars, admitVars, throttleVars,
                 fenVars, cacheVars, jobVars, loopVars, timeVars, bookVars,
                 guardLoopVars, paceVars>>

\* new_engine = spawn_engine(); if it raises: return None
RescueSpawn(ok) ==
    /\ qpc = "spawn"
    /\ qops' = Append(qops, "spawn")
    /\ IF ok
         THEN qnew' = "live" /\ qpc' = "halve" /\ qret' = qret
         ELSE qnew' = qnew /\ qpc' = "done" /\ qret' = "noresult"
    /\ UNCHANGED <<qsec, qbudget, qlimit, qnewlimit, qold>>
    /\ UNCHANGED <<coreVars, streamVars, moveVars, admitVars, throttleVars,
                 fenVars, cacheVars, jobVars, loopVars, timeVars, bookVars,
                 guardLoopVars, paceVars>>

RescueHalve ==
    /\ qpc = "halve"
    /\ qnewlimit' = Halved(qlimit)
    /\ qops' = Append(qops, "halve")
    /\ qpc' = "sleep"
    /\ UNCHANGED <<qsec, qbudget, qlimit, qold, qnew, qret>>
    /\ UNCHANGED <<coreVars, streamVars, moveVars, admitVars, throttleVars,
                 fenVars, cacheVars, jobVars, loopVars, timeVars, bookVars,
                 guardLoopVars, paceVars>>

\* time.sleep(RETRY_DELAY_S)
RescueSleep ==
    /\ qpc = "sleep"
    /\ qops' = Append(qops, "sleep")
    /\ qpc' = "retry"
    /\ UNCHANGED <<qsec, qbudget, qlimit, qnewlimit, qold, qnew, qret>>
    /\ UNCHANGED <<coreVars, streamVars, moveVars, admitVars, throttleVars,
                 fenVars, cacheVars, jobVars, loopVars, timeVars, bookVars,
                 guardLoopVars, paceVars>>

\* res = new_engine.play(board, new_limit): the tuple ("_ENGINE_SWAP_",
\* new_engine, res) is returned, or the error is logged and None returned
RescueRetry(ok) ==
    /\ qpc = "retry"
    /\ qops' = Append(qops, "retry")
    /\ qpc' = "done"
    /\ qret' = IF ok THEN "swap" ELSE "noresult"
    /\ UNCHANGED <<qsec, qbudget, qlimit, qnewlimit, qold, qnew>>
    /\ UNCHANGED <<coreVars, streamVars, moveVars, admitVars, throttleVars,
                 fenVars, cacheVars, jobVars, loopVars, timeVars, bookVars,
                 guardLoopVars, paceVars>>

\* the caller has the returned value
RescueReturn ==
    /\ qpc = "done"
    /\ qpc' = "idle"
    /\ UNCHANGED <<qsec, qbudget, qlimit, qnewlimit, qops, qold, qnew, qret>>
    /\ UNCHANGED <<coreVars, streamVars, moveVars, admitVars, throttleVars,
                 fenVars, cacheVars, jobVars, loopVars, timeVars, bookVars,
                 guardLoopVars, paceVars>>

NextRescue ==
    \/ \E sec \in RescueSecLefts, budget \in RetryBudgets,
          limit \in RescueLimits : RescueCall(sec, budget, limit)
    \/ \E ok \in BOOLEAN : RescueFirst(ok)
    \/ RescueQuit
    \/ \E ok \in BOOLEAN : RescueSpawn(ok)
    \/ RescueHalve
    \/ RescueSleep
    \/ \E ok \in BOOLEAN : RescueRetry(ok)
    \/ RescueReturn

SpecRescue == Init /\ [][NextRescue]_vars

(***************************************************************************)
(* C16.  When the first engine request fails, play_or_rescue returns "no   *)
(* result" without a respawn if sec_left is unknown or not greater than    *)
(* the retry delay plus the margin, or if the retry budget is zero;        *)
(* otherwise it terminates the old engine, spawns a replacement, halves a  *)
(* time limit (depth and node limits unchanged), sleeps, retries exactly   *)
(* once on the new engine, and a successful retry returns the swap tuple.  *)
(***************************************************************************)
FullRescue == <<"quit", "spawn", "halve", "sleep", "retry">>

RescueAllowed ==
    qsec[1] = "sec" /\ qsec[2] > RESCUE_MIN_DS /\ qbudget > 0

Returned == qpc \in {"done", "idle"} /\ qret # "none"

IsPrefix(s, t) == Len(s) <= Len(t) /\ \A k \in 1..Len(s) : s[k] = t[k]

C17_NoSupersededHandle ==
    Returned => /\ qold = "quit" => qret = "swap"
                /\ qnew = "live" => qret = "swap"

(***************************************************************************)
(* Admission and outgoing dispatch.  start() reads the configuration from  *)
(* the environment and starts event_listener and challenger_loop.  The     *)
(* listener handles one event of the incoming stream at a time: a          *)
(* challenge is answered (or ignored), a gameStart claims the game and     *)
(* starts a session.  Texts that the code lower-cases are modelled by the  *)
(* tokens below; time is counted in ticks of ten seconds and advances      *)
(* with the sleeps of challenger_loop.                                     *)
(***************************************************************************)
\* last tick of the clock
MaxClock == 2
\* fields in which a challenge event may differ from an acceptable one
MaxDeviations == 2

ACCEPT_MIN_BASE_SECONDS == 300
\* 900 s
RECHALLENGE_COOLDOWN == 90
MAX_OUTGOING_CHALLENGES == 1
\* time.sleep(10) and time.sleep(20) of challenger_loop
SLEEP_SHORT == 1
SLEEP_LONG == 2
OUTGOING_ONLY_WHEN_IDLE == TRUE
TOURNAMENT_SOURCES == {"tournament", "swiss", "arena"}
MY_BOT_ID == "me"
Opponents == {"x", "y"}

\* str.lower() on the texts of the model
Lower(s) ==
    CASE s = "Abc" -> "abc"
      [] s = "Swiss" -> "swiss"
      [] s = "ME" -> "me"
      [] OTHER -> s

Cfg(t, o, v, n, h, p) ==
    [tmode |-> t, only |-> o, variant_std |-> v, nonrated |-> n,
     humans |-> h, proactive |-> p]

\* TOURNAMENT_MODE, ONLY_TOURNAMENT_ID (stripped, not lower-cased),
\* ACCEPT_VARIANT_STANDARD, ACCEPT_NONRATED, ALLOW_HUMANS and
\* kcfg.proactive: the defaults, each policy switch turned (with
\* proactive challenging off), and tournament mode without and with a
\* single tournament id
Configs ==
    {Cfg(FALSE, "", TRUE, TRUE, TRUE, TRUE),
     Cfg(FALSE, "", FALSE, TRUE, TRUE, FALSE),
     Cfg(FALSE, "", TRUE, FALSE, TRUE, FALSE),
     Cfg(FALSE, "", TRUE, TRUE, FALSE, FALSE),
     Cfg(TRUE, "", TRUE, TRUE, TRUE, TRUE),
     Cfg(TRUE, "abc", TRUE, TRUE, TRUE, TRUE),
     Cfg(TRUE, "Abc", TRUE, TRUE, TRUE, TRUE)}

\* the fields of a challenge event that the code looks at
ChallengeFields ==
    {"variant", "limit", "rated", "title", "challenger", "dest", "status"}

AllChallenges ==
    [variant : {"standard", "chess960"}, limit : {60, 300},
     rated : BOOLEAN, title : {"BOT", ""}, challenger : {"me", "other"},
     dest : {"me", "ME", "other"}, status : {"", "created", "declined"}]

\* a rated standard 5+0 challenge of another bot to this bot, still open
PlainChallenge ==
    [variant |-> "standard", limit |-> 300, rated |-> TRUE, title |-> "BOT",
     challenger |-> "other", dest |-> "me", status |-> "created"]

\* the challenge events of the model: PlainChallenge with up to
\* MaxDeviations fields changed
Challenges ==
    {ch \in AllChallenges :
        Cardinality({f \in ChallengeFields : ch[f] # PlainChallenge[f]})
           <= MaxDeviations}

\* the fields of a gameStart event that the code looks at
GameStarts ==
    [gid : GIDS, source : {"friend", "tournament", "Swiss"},
     tid : {"", "abc", "Abc", "xyz"}, opp : {"", "x"}]

\* start(): the configuration is fixed, the two threads start
Configure(c) ==
    /\ kpc = "boot"
    /\ kpc' = "run"
    /\ kcfg' = c
    /\ UNCHANGED <<kkind, kreply, kseen, ksess, dpc, dnow, bots_cache, last_cache, didx,
                   last_challenged, pending_challenges, dissued,
                   doutstanding>>
    /\ UNCHANGED <<coreVars, streamVars, moveVars, rescueVars, throttleVars,
                 fenVars, cacheVars, jobVars, loopVars, timeVars, bookVars,
                 guardLoopVars, paceVars>>

acceptable_challenge(ch) ==
    IF kcfg.variant_std /\ ch.variant # "standard" THEN FALSE
    ELSE IF ~kcfg.nonrated /\ ~ch.rated THEN FALSE
    ELSE IF ch.limit < ACCEPT_MIN_BASE_SECONDS THEN FALSE
    ELSE IF ~kcfg.humans /\ ch.title # "BOT" THEN FALSE
    ELSE IF Lower(ch.challenger) = MY_BOT_ID \/ Lower(ch.dest) # MY_BOT_ID
      THEN FALSE
    ELSE IF ch.status # "" /\ ch.status \notin {"created", "pending"}
      THEN FALSE
    ELSE TRUE

\* the capacity test dropped
CapacityAlways == TRUE

\* with lock: capacity_ok = len(active_games) < MAX_ACTIVE_GAMES
CapacityOk == Cardinality(active_games) < MAX_ACTIVE_GAMES

\* the listener's answer to a challenge event
ChallengeReply(ch) ==
    LET is_inbound == Lower(ch.dest) = MY_BOT_ID
        is_outgoing == Lower(ch.challenger) = MY_BOT_ID
    IN  IF kcfg.tmode /\ is_inbound THEN "decline"
        ELSE IF is_outgoing THEN "none"
        ELSE IF ~is_inbound THEN "none"
        ELSE IF CapacityOk /\ acceptable_challenge(ch) THEN "accept"
        ELSE "decline"

\* remove_pending(opp_id) when an outgoing challenge has ended
PendingAfterChallenge(ch) ==
    IF /\ ~(kcfg.tmode /\ Lower(ch.dest) = MY_BOT_ID)
       /\ Lower(ch.challenger) = MY_BOT_ID
       /\ (IF ch.status = "" THEN "created" ELSE ch.status)
             \notin {"created", "pending"}
      THEN pending_challenges \ {Lower(ch.dest)}
      ELSE pending_challenges

\* For the history variable kseen: the policy checks as the specification
\* lists them, and whether a challenge is addressed to this bot.
PassesPolicy(ch) ==
    /\ ~kcfg.variant_std \/ ch.variant = "standard"
    /\ ch.limit >= ACCEPT_MIN_BASE_SECONDS
    /\ ch.rated \/ kcfg.nonrated
    /\ ch.title = "BOT" \/ kcfg.humans
    /\ Lower(ch.dest) = MY_BOT_ID /\ Lower(ch.challenger) # MY_BOT_ID
    /\ ch.status \in {"", "created", "pending"}

Inbound(ch) == Lower(ch.dest) = MY_BOT_ID

\* a gameStart that tournament mode is to ignore: its source is not
\* allowed, or a single tournament id is configured and its id is another
ForeignStart(ev) ==
    \/ Lower(ev.source) \notin TOURNAMENT_SOURCES
    \/ (kcfg.only # "" /\ ev.tid # kcfg.only)

ListenerChallenge(ch) ==
    /\ kpc = "run"
    /\ kkind' = "challenge"
    /\ kreply' = ChallengeReply(ch)
    /\ kseen' = [inbound |-> Inbound(ch),
                 self |-> Lower(ch.challenger) = MY_BOT_ID,
                 passes |-> PassesPolicy(ch),
                 free |-> Cardinality(active_games) < MAX_ACTIVE_GAMES,
                 foreign |-> FALSE, claimed |-> FALSE]
    /\ pending_challenges' = PendingAfterChallenge(ch)
    /\ doutstanding' =
          IF Lower(ch.challenger) = MY_BOT_ID /\ ch.status = "declined"
            THEN doutstanding \ {Lower(ch.dest)} ELSE doutstanding
    /\ UNCHANGED <<kpc, kcfg, ksess, dpc, dnow, bots_cache, last_cache, didx,
                   last_challenged, dissued>>
    /\ UNCHANGED <<coreVars, streamVars, moveVars, rescueVars, throttleVars,
                 fenVars, cacheVars, jobVars, loopVars, timeVars, bookVars,
                 guardLoopVars, paceVars>>

\* the source and tournament gates of a gameStart in tournament mode
GameStartPasses(ev) ==
    IF kcfg.tmode
      THEN /\ Lower(ev.source) \in TOURNAMENT_SOURCES
           /\ ~(kcfg.only # "" /\ Lower(ev.tid) # kcfg.only)
      ELSE TRUE

\* gameStart: gates, remove_pending(opp), claim_game(gid), Thread(handle_game)
ListenerGameStart(ev) ==
    /\ kpc = "run"
    /\ kkind' = "gameStart"
    /\ kreply' = "none"
    /\ kseen' = [inbound |-> FALSE, self |-> FALSE, passes |-> FALSE,
                 free |-> FALSE, foreign |-> ForeignStart(ev),
                 claimed |-> GameStartPasses(ev) /\ ev.gid \notin active_games]
    /\ IF ~GameStartPasses(ev)
         THEN UNCHANGED <<pending_challenges, active_games, ksess>>
         ELSE /\ pending_challenges' =
                   IF ev.opp # "" THEN pending_challenges \ {Lower(ev.opp)}
                   ELSE pending_challenges
              /\ IF ev.gid \in active_games
                   THEN UNCHANGED <<active_games, ksess>>
                   ELSE /\ active_games' = active_games \cup {ev.gid}
                        /\ ksess' = ksess \cup {ev.gid}
    /\ doutstanding' =
          IF ev.opp # "" THEN doutstanding \ {Lower(ev.opp)} ELSE doutstanding
    /\ UNCHANGED <<kpc, kcfg, dpc, dnow, bots_cache, last_cache, didx,
                   last_challenged, dissued>>
    /\ UNCHANGED <<lock, wins, losses, draws, game_limit, pc, tgid, tcolor,
                 tret, tkind, ttmp, engine, sexit, sres, finalized, started,
                 inc_done, inc_begun, gstatus, gwinner, http_lock, inflight,
                 retryVars, streamVars, moveVars, rescueVars, throttleVars,
                 fenVars, cacheVars, jobVars, loopVars, timeVars, bookVars,
                 guardLoopVars, paceVars>>

\* a session ends: the finally block of handle_game releases the game
SessionEnds(g) ==
    /\ g \in ksess
    /\ ksess' = ksess \ {g}
    /\ active_games' = active_games \ {g}
    /\ UNCHANGED <<kpc, kcfg, kkind, kreply, kseen, dpc, dnow, bots_cache,
                   last_cache, didx, last_challenged, pending_challenges,
                   dissued, doutstanding>>
    /\ UNCHANGED <<lock, wins, losses, draws, game_limit, pc, tgid, tcolor,
                 tret, tkind, ttmp, engine, sexit, sres, finalized, started,
                 inc_done, inc_begun, gstatus, gwinner, http_lock, inflight,
                 retryVars, streamVars, moveVars, rescueVars, throttleVars,
                 fenVars, cacheVars, jobVars, loopVars, timeVars, bookVars,
                 guardLoopVars, paceVars>>

\* challenger_loop starts: it returns at once if proactive challenging is
\* off or in tournament mode
DispatchStart ==
    /\ kpc = "run"
    /\ dpc = "boot"
    /\ dpc' = IF ~kcfg.proactive \/ kcfg.tmode THEN "off" ELSE "top"
    /\ UNCHANGED <<kpc, kcfg, kkind, kreply, kseen, ksess, dnow, bots_cache,
                   last_cache, didx, last_challenged, pending_challenges,
                   dissued, doutstanding>>
    /\ UNCHANGED <<coreVars, streamVars, moveVars, rescueVars, throttleVars,
                 fenVars, cacheVars, jobVars, loopVars, timeVars, bookVars,
                 guardLoopVars, paceVars>>

\* bots_cache is refreshed when empty or older than 120 s
CACHE_TTL == 12

\* Top of the while loop: the capacity and idle stops (sleep 10 s), then the
\* refresh of the candidate list (get_online_bots never returns an empty
\* list) and the start of the walk.  sweep_stale_pendings finds nothing:
\* pending_challenges has no writer.
DispatchTop(busy, list) ==
    /\ dpc = "top"
    /\ LET active_n == Cardinality(active_games)
           pend_n == Cardinality(pending_challenges)
       IN  IF \/ active_n >= MAX_ACTIVE_GAMES \/ pend_n > 0
              \/ (OUTGOING_ONLY_WHEN_IDLE /\ (active_n > 0 \/ busy))
             THEN /\ dnow + SLEEP_SHORT <= MaxClock
                  /\ dnow' = dnow + SLEEP_SHORT
                  /\ UNCHANGED <<dpc, bots_cache, last_cache, didx>>
             ELSE /\ IF bots_cache = <<>> \/ dnow - last_cache > CACHE_TTL
                       THEN bots_cache' = list /\ last_cache' = dnow
                       ELSE UNCHANGED <<bots_cache, last_cache>>
                  /\ dpc' = "walk"
                  /\ didx' = 1
                  /\ dnow' = dnow
    /\ UNCHANGED <<kpc, kcfg, kkind, kreply, kseen, ksess, last_challenged,
                   pending_challenges, dissued, doutstanding>>
    /\ UNCHANGED <<coreVars, streamVars, moveVars, rescueVars, throttleVars,
                 fenVars, cacheVars, jobVars, loopVars, timeVars, bookVars,
                 guardLoopVars, paceVars>>

\* should_challenge(username), rating_ok being the outcome of the rating gate
should_challenge(u, rating_ok) ==
    IF Cardinality(pending_challenges) >= MAX_OUTGOING_CHALLENGES THEN FALSE
    ELSE IF Lower(u) \in pending_challenges THEN FALSE
    ELSE IF /\ last_challenged[Lower(u)] # -1
            /\ dnow - last_challenged[Lower(u)] < RECHALLENGE_COOLDOWN
      THEN FALSE
    ELSE rating_ok

\* One candidate of the walk: the stops that break the walk, then
\* should_challenge and challenge_bot.  challenge_bot
\* creates the challenge; neither it nor the loop calls mark_challenged or
\* add_pending.
DispatchWalk(busy, rating_ok) ==
    /\ dpc = "walk"
    /\ LET active_n == Cardinality(active_games)
           pend_n == Cardinality(pending_challenges)
       IN  IF didx > Len(bots_cache)
             THEN /\ dpc' = "top"
                  /\ UNCHANGED <<didx, dnow, dissued, doutstanding>>
           ELSE IF \/ active_n >= MAX_ACTIVE_GAMES
                   \/ pend_n >= MAX_OUTGOING_CHALLENGES
                   \/ (OUTGOING_ONLY_WHEN_IDLE /\ (active_n > 0 \/ busy))
                   \/ ~kcfg.proactive
             THEN /\ dpc' = "top"
                  /\ UNCHANGED <<didx, dnow, dissued, doutstanding>>
           ELSE IF ~should_challenge(bots_cache[didx], rating_ok)
             THEN /\ didx' = didx + 1
                  /\ UNCHANGED <<dpc, dnow, dissued, doutstanding>>
           ELSE /\ dissued' = [dissued EXCEPT ![bots_cache[didx]] = dnow]
                /\ doutstanding' = doutstanding \cup {bots_cache[didx]}
                /\ dpc' = "pause"
                /\ UNCHANGED <<didx, dnow>>
    /\ UNCHANGED <<kpc, kcfg, kkind, kreply, kseen, ksess, bots_cache,
                   last_cache, last_challenged, pending_challenges>>
    /\ UNCHANGED <<coreVars, streamVars, moveVars, rescueVars, throttleVars,
                 fenVars, cacheVars, jobVars, loopVars, timeVars, bookVars,
                 guardLoopVars, paceVars>>

\* time.sleep(20) after a challenge, then the next candidate
DispatchPause ==
    /\ dpc = "pause"
    /\ dnow + SLEEP_LONG <= MaxClock
    /\ dnow' = dnow + SLEEP_LONG
    /\ didx' = didx + 1
    /\ dpc' = "walk"
    /\ UNCHANGED <<kpc, kcfg, kkind, kreply, kseen, ksess, bots_cache,
                   last_cache, last_challenged, pending_challenges, dissued,
                   doutstanding>>
    /\ UNCHANGED <<coreVars, streamVars, moveVars, rescueVars, throttleVars,
                 fenVars, cacheVars, jobVars, loopVars, timeVars, bookVars,
                 guardLoopVars, paceVars>>

CandidateLists == {<<"x">>, <<"x", "y">>}

NextAdmit ==
    \/ \E c \in Configs : Configure(c)
    \/ \E ch \in Challenges : ListenerChallenge(ch)
    \/ \E ev \in GameStarts : ListenerGameStart(ev)
    \/ \E g \in GIDS : SessionEnds(g)
    \/ DispatchStart
    \/ \E busy \in BOOLEAN, list \in CandidateLists : DispatchTop(busy, list)
    \/ \E busy \in BOOLEAN, rating_ok \in BOOLEAN :
          DispatchWalk(busy, rating_ok)
    \/ DispatchPause

SpecAdmit == Init /\ [][NextAdmit]_vars

(***************************************************************************)
(* C18.  Outside tournament mode an inbound challenge is accepted if and   *)
(* only if it passes every policy check (variant, minimum base time,       *)
(* rated or non-rated allowed, bot or humans allowed, addressed to this    *)
(* bot and not self-issued, status still open); one failing any check is   *)
(* declined.                                                               *)
(***************************************************************************)
HandledInbound == kkind = "challenge" /\ ~kcfg.tmode /\ kseen.inbound

\* C18 as stated: every inbound challenge handled outside tournament mode
\* was accepted if it passed the policy and declined if not.
C18_AcceptIffPolicy ==
    HandledInbound
       => kreply = IF kseen.passes THEN "accept" ELSE "decline"

\* C18, amended: outside tournament mode an inbound challenge that the bot
\* did not issue itself is accepted if and only if it passes the policy and
\* the registry holds fewer than MAX_ACTIVE_GAMES games when it is handled
\* (kseen.free),
\* and is declined otherwise; one the bot issued itself is never accepted.
C18_AcceptIffPolicyAndCapacity ==
    HandledInbound
       => IF kseen.self
            THEN kreply # "accept"
            ELSE kreply = IF kseen.passes /\ kseen.free
                            THEN "accept" ELSE "decline"

\* outside tournament mode, with humans not allowed, a challenge that
\* passes the policy was accepted while no game was active
C18_Witness ==
    /\ kpc = "run" /\ ~kcfg.humans
    /\ HandledInbound /\ kseen.passes /\ kseen.free
    /\ kreply = "accept"

(***************************************************************************)
(* C19.  In tournament mode every inbound challenge is declined whatever   *)
(* the policy says, a gameStart whose source is not allowed or whose       *)
(* tournament id differs from the configured one claims nothing and starts *)
(* no session, and the outgoing-dispatch loop issues no challenge.         *)
(***************************************************************************)
InboundDeclined ==
    (kkind = "challenge" /\ kseen.inbound) => kreply = "decline"

ForeignStartIgnored ==
    (kkind = "gameStart" /\ kseen.foreign) => ~kseen.claimed

NoDispatchInTournament ==
    /\ dpc \in {"boot", "off"}
    /\ \A o \in Opponents : dissued[o] = -1

\* C19: the three parts, in every state of a tournament-mode run
C19_TournamentMode ==
    (kpc = "run" /\ kcfg.tmode)
       => InboundDeclined /\ ForeignStartIgnored /\ NoDispatchInTournament

(***************************************************************************)
(* C20.  After the dispatch loop has issued a challenge to an opponent it  *)
(* issues no other to the same opponent before RECHALLENGE_COOLDOWN has    *)
(* elapsed, over any number of passes over the candidate list.             *)
(***************************************************************************)
\* C20: a challenge is created for an opponent only if none was created
\* for it before or the last one is at least RECHALLENGE_COOLDOWN old
C20_CooldownRespected ==
    [][\A o \in Opponents :
          dissued'[o] # dissued[o]
             => (dissued[o] = -1
                   \/ dissued'[o] - dissued[o] >= RECHALLENGE_COOLDOWN)]_vars

(***************************************************************************)
(* C21.  Every outgoing challenge that was sent and is neither resolved    *)
(* nor older than PENDING_TTL is in pending_challenges under the           *)
(* opponent's lower-cased name; an opponent recorded there is not          *)
(* challenged again; there are never more than MAX_OUTGOING_CHALLENGES     *)
(* such challenges.                                                        *)
(***************************************************************************)
\* 30 s
PENDING_TTL == 3

Outstanding ==
    {o \in doutstanding : dnow - dissued[o] <= PENDING_TTL}

\* C21: the outstanding challenges are all recorded, and they are at most
\* MAX_OUTGOING_CHALLENGES
C21_PendingRecorded ==
    /\ \A o \in Outstanding : Lower(o) \in pending_challenges
    /\ Cardinality(Outstanding) <= MAX_OUTGOING_CHALLENGES

(***************************************************************************)
(* The pacing of outgoing challenge creation.  challenge_bot calls         *)
(* http_throttle and then _retry_call(client.challenges.create): the       *)
(* throttle waits until _next_http_ok_at and moves it RATE_MIN_INTERVAL    *)
(* ahead; the request itself is sent later, once _http_lock is free, and   *)
(* is sent again after a 429 or a transient failure.  challenger_loop      *)
(* sleeps 20 s between two calls.  Time is in seconds.  http_backoff has   *)
(* no caller in the source; the model lets it be called between two calls  *)
(* of challenge_bot.                                                       *)
(***************************************************************************)
\* calls of challenge_bot in one run
MaxBotCalls == 2
\* requests sent in one run
MaxPosts == 3

RATE_MIN_INTERVAL == 60
\* time.sleep(20) of challenger_loop, in seconds
LOOP_PAUSE_S == 20
\* how long _http_lock may be held by another thread's call, in seconds
LockWaits == {0, 10}
\* the seconds passed to http_backoff
BackoffSeconds == {30, 120}
\* the Retry-After header of a 429 answer
RetryAfterHeaders == {<<"none", 0>>, <<"int", 7>>}

\* http_throttle: `if now < _next_http_ok_at: time.sleep(_next_http_ok_at -
\* now)`; the time at which it goes on
ThrottleEnd(now) == IF now < next_http_ok_at THEN next_http_ok_at ELSE now

\* challenge_bot starts: http_throttle()
BotThrottle ==
    /\ hpc = "idle"
    /\ hcalls < MaxBotCalls
    /\ hcalls' = hcalls + 1
    /\ hnow' = ThrottleEnd(hnow)
    /\ next_http_ok_at' = ThrottleEnd(hnow) + RATE_MIN_INTERVAL
    /\ hb429' = BACKOFF_429_START
    /\ hattempt' = 0
    /\ hpc' = "create"
    /\ UNCHANGED <<hwake, hposts, hlast, hgap, huntil>>
    /\ UNCHANGED <<coreVars, streamVars, moveVars, rescueVars, admitVars,
                 fenVars, cacheVars, jobVars, loopVars, timeVars, bookVars,
                 guardLoopVars, paceVars>>

\* `with _http_lock: return fn(...)`: the lock is taken after `wait` seconds
\* and the request is sent; `out` is what comes back
BotPost(wait, out, header) ==
    /\ hpc = "create"
    /\ hposts < MaxPosts
    /\ hposts' = hposts + 1
    /\ LET t == hnow + wait
           answered == out \in {"ok", "429", "error"}
       IN  /\ hlast' = IF answered THEN t ELSE hlast
           /\ hgap' = IF answered /\ hlast # -1 /\ (hgap = -1 \/ t - hlast < hgap)
                        THEN t - hlast ELSE hgap
           /\ CASE out \in {"ok", "error"} ->
                     /\ hpc' = "idle"
                     /\ hnow' = t + LOOP_PAUSE_S
                     /\ UNCHANGED <<hb429, hattempt, hwake>>
                [] out = "429" ->
                     /\ hpc' = "wait"
                     /\ hnow' = t
                     /\ hwake' = t + RetryAfter([retry_after |-> header], hb429)
                     /\ hb429' = NextBackoff(hb429)
                     /\ UNCHANGED hattempt
                [] out = "transient" ->
                     /\ hattempt' = hattempt + 1
                     /\ hnow' = t
                     /\ IF RetriesExceeded(hattempt + 1)
                          THEN hpc' = "idle" /\ hwake' = hwake
                          ELSE hpc' = "wait" /\ hwake' = t + RECONNECT_DELAY_SEC
                     /\ UNCHANGED hb429
    /\ UNCHANGED <<next_http_ok_at, hcalls, huntil>>
    /\ UNCHANGED <<coreVars, streamVars, moveVars, rescueVars, admitVars,
                 fenVars, cacheVars, jobVars, loopVars, timeVars, bookVars,
                 guardLoopVars, paceVars>>

\* the sleep of _retry_call ends and the loop tries again
BotWake ==
    /\ hpc = "wait"
    /\ hpc' = "create"
    /\ hnow' = hwake
    /\ UNCHANGED <<next_http_ok_at, hb429, hattempt, hwake, hcalls, hposts,
                   hlast, hgap, huntil>>
    /\ UNCHANGED <<coreVars, streamVars, moveVars, rescueVars, admitVars,
                 fenVars, cacheVars, jobVars, loopVars, timeVars, bookVars,
                 guardLoopVars, paceVars>>

\* http_backoff(seconds): _next_http_ok_at = max(_next_http_ok_at, now + s)
HttpBackoff(s) ==
    /\ hpc = "idle"
    /\ hcalls < MaxBotCalls
    /\ huntil < hnow + s
    /\ next_http_ok_at' =
          IF next_http_ok_at > hnow + s THEN next_http_ok_at ELSE hnow + s
    /\ huntil' = hnow + s
    /\ UNCHANGED <<hpc, hnow, hb429, hattempt, hwake, hcalls, hposts, hlast,
                   hgap>>
    /\ UNCHANGED <<coreVars, streamVars, moveVars, rescueVars, admitVars,
                 fenVars, cacheVars, jobVars, loopVars, timeVars, bookVars,
                 guardLoopVars, paceVars>>

NextThrottle ==
    \/ BotThrottle
    \/ \E wait \in LockWaits, out \in {"ok", "429", "error", "transient"},
          header \in RetryAfterHeaders : BotPost(wait, out, header)
    \/ BotWake
    \/ \E s \in BackoffSeconds : HttpBackoff(s)

SpecThrottle == Init /\ [][NextThrottle]_vars

(***************************************************************************)
(* C22.  Two consecutive challenge creations are at least                  *)
(* RATE_MIN_INTERVAL apart, none starts before a time set through          *)
(* http_backoff, and http_backoff and http_throttle never move             *)
(* _next_http_ok_at back.                                                  *)
(***************************************************************************)
CreationsSpaced == hgap = -1 \/ hgap >= RATE_MIN_INTERVAL

NoCreationBeforeBackoff == hpc = "create" => hnow >= huntil

NextAllowedMonotone == next_http_ok_at' >= next_http_ok_at

\* C22: the three parts
C22_CreationPacing ==
    /\ [](CreationsSpaced /\ NoCreationBeforeBackoff)
    /\ [][NextAllowedMonotone]_vars

(***************************************************************************)
(* normalize_fen.  A FEN text is a sequence of tokens: its fields and the  *)
(* blanks between them (" " is one blank).  str.strip().split() gives the  *)
(* fields; the key is the first four of them joined by single blanks, the  *)
(* en-passant field replaced by "-" unless it matches [a-h][36].           *)
(***************************************************************************)
\* blanks between two fields of a FEN text
MaxGap == 2

ValueError == <<"ValueError">>

\* the characters of the en-passant fields of the model
EpChars ==
    [ep \in {"-", "e3", "d6", "e4", "i3", "e33", "E3"} |->
        CASE ep = "-" -> <<"-">>
          [] ep = "e3" -> <<"e", "3">>
          [] ep = "d6" -> <<"d", "6">>
          [] ep = "e4" -> <<"e", "4">>
          [] ep = "i3" -> <<"i", "3">>
          [] ep = "e33" -> <<"e", "3", "3">>
          [] ep = "E3" -> <<"E", "3">>]

EpFields == DOMAIN EpChars

\* any rank taken for an en-passant rank
EpMatchesAnyRank(ep) ==
    /\ Len(EpChars[ep]) = 2
    /\ EpChars[ep][1] \in {"a", "b", "c", "d", "e", "f", "g", "h"}

\* re.fullmatch(r"[a-h][36]", ep)
EpMatches(ep) ==
    /\ Len(EpChars[ep]) = 2
    /\ EpChars[ep][1] \in {"a", "b", "c", "d", "e", "f", "g", "h"}
    /\ EpChars[ep][2] \in {"3", "6"}

NotBlank(t) == t # " "

\* fen.strip().split()
SplitFields(fen) == SelectSeq(fen, NotBlank)

\* " ".join(fields)
RECURSIVE JoinFields(_)
JoinFields(fields) ==
    IF Len(fields) <= 1 THEN fields
    ELSE <<Head(fields), " ">> \o JoinFields(Tail(fields))

normalize_fen(fen) ==
    LET parts == SplitFields(fen)
    IN  IF Len(parts) < 4 THEN ValueError
        ELSE LET ep == parts[4]
                 ep2 == IF ep # "-" /\ ~EpMatches(ep) THEN "-" ELSE ep
             IN  JoinFields(<<parts[1], parts[2], parts[3], ep2>>)

\* the fields of a FEN: `n` of board, side, castling, en passant, halfmove
\* clock, fullmove number
FenFieldLists ==
    {SubSeq(<<b, t, c, ep, hm[1], hm[2]>>, 1, n) :
        b \in {"B1"}, t \in {"w", "b"}, c \in {"KQkq", "-"},
        ep \in EpFields, hm \in {<<"0", "1">>, <<"5", "9">>}, n \in {3, 4, 6}}

RECURSIVE Blanks(_)
Blanks(n) == IF n = 0 THEN <<>> ELSE <<" ">> \o Blanks(n - 1)

RECURSIVE Spread(_, _)
Spread(fields, gap) ==
    IF Len(fields) <= 1 THEN fields
    ELSE <<Head(fields)>> \o Blanks(gap) \o Spread(Tail(fields), gap)

\* the FEN texts of the model: the fields with `gap` blanks between them
\* and `lead` blanks around them
FenTexts ==
    {Blanks(lead) \o Spread(fields, gap) \o Blanks(lead) :
        fields \in FenFieldLists, gap \in 1..MaxGap, lead \in {0, 1}}

FenCall(fen) ==
    /\ nf_in = <<>> \/ nf_twice # <<>> \/ nf_out = ValueError
    /\ nf_in' = fen
    /\ nf_out' = normalize_fen(fen)
    /\ nf_twice' = <<>>
    /\ UNCHANGED <<coreVars, streamVars, moveVars, rescueVars, admitVars,
                 throttleVars, cacheVars, jobVars, loopVars, timeVars,
                 bookVars, guardLoopVars, paceVars>>

FenCallOnResult ==
    /\ nf_out # <<>> /\ nf_out # ValueError
    /\ nf_twice = <<>>
    /\ nf_twice' = normalize_fen(nf_out)
    /\ UNCHANGED <<nf_in, nf_out>>
    /\ UNCHANGED <<coreVars, streamVars, moveVars, rescueVars, admitVars,
                 throttleVars, cacheVars, jobVars, loopVars, timeVars,
                 bookVars, guardLoopVars, paceVars>>

NextFen ==
    \/ \E fen \in FenTexts : FenCall(fen)
    \/ FenCallOnResult

SpecFen == Init /\ [][NextFen]_vars

(***************************************************************************)
(* C26.  normalize_fen is deterministic, gives the same key for two FENs   *)
(* that differ only in halfmove clock and fullmove number, replaces every  *)
(* en-passant field other than "-" and a file a-h followed by 3 or 6 by    *)
(* "-", and returns its own output unchanged.                              *)
(***************************************************************************)
SameButCounters(f, g) ==
    /\ Len(f) = Len(g)
    /\ \A k \in 1..Len(f) :
          f[k] # g[k] => (Len(SplitFields(SubSeq(f, 1, k))) \in {5, 6}
                            /\ f[k] # " " /\ g[k] # " ")

LegalEpFields == {"-"} \cup {"e3", "d6"}

Keyed == nf_out # <<>> /\ nf_out # ValueError

C26_NormalizeFen ==
    /\ \A g \in FenTexts :
          (nf_in # <<>> /\ (g = nf_in \/ SameButCounters(nf_in, g)))
             => normalize_fen(g) = nf_out
    /\ Keyed
          => LET in == SplitFields(nf_in)
                 out == SplitFields(nf_out)
             IN  /\ Len(out) = 4
                 /\ \A k \in 1..3 : out[k] = in[k]
                 /\ out[4] = IF in[4] \in LegalEpFields THEN in[4] ELSE "-"
    /\ nf_twice # <<>> => nf_twice = nf_out

\* a FEN with an en-passant field on a wrong rank and with counters was
\* keyed, and the key was keyed again
C26_Witness ==
    /\ Keyed
    /\ Len(SplitFields(nf_in)) = 6 /\ SplitFields(nf_in)[4] = "e4"
    /\ Len(nf_in) > 11
    /\ nf_twice = nf_out

(***************************************************************************)
(* The position cache: fen_cache in memory, the cache file that an         *)
(* external process also writes, and the job directory.  A dict is a       *)
(* sequence of <<key, entry>> pairs with distinct keys, in insertion       *)
(* order; an entry is its best move and its depth_reached (-1 when the     *)
(* entry has none).  Whether the file's mtime is past _cache_last_mtime    *)
(* is kept as cnewer: every write of the file sets it, a reload clears it. *)
(***************************************************************************)
OFFLOAD_ON_MISS == TRUE

FenK1 == <<"B1", " ", "w", " ", "-", " ", "-">>
FenK1c == FenK1 \o <<" ", "0", " ", "1">>
FenK2 == <<"B2", " ", "w", " ", "-", " ", "-">>
FenK2c == FenK2 \o <<" ", "5", " ", "9">>

\* keys found in a cache file: normalized, and with the counters
FileKeys == {FenK1, FenK1c}

\* entries found in a cache file
FileEntries ==
    {[mv |-> "a", depth |-> -1], [mv |-> "b", depth |-> 10],
     [mv |-> "c", depth |-> 20]}

\* the entry a local search gives
LocalEntry == [mv |-> "s", depth |-> 15]

\* board.fen() of the positions probed
BoardFens == {FenK1c, FenK2c}

Keys(d) == {d[k][1] : k \in 1..Len(d)}

Find(d, key) == CHOOSE k \in 1..Len(d) : d[k][1] = key

Get(d, key) == d[Find(d, key)][2]

\* d[key] = entry
Put(d, key, entry) ==
    IF key \in Keys(d)
      THEN [d EXCEPT ![Find(d, key)] = <<key, entry>>]
      ELSE Append(d, <<key, entry>>)

\* dict equality
SameDict(d, e) == {d[k] : k \in 1..Len(d)} = {e[k] : k \in 1..Len(e)}

FileContents ==
    {<<>>}
    \cup {<<<<k, e>>>> : k \in FileKeys, e \in FileEntries}
    \cup {d \in {<<<<k1, e1>>, <<k2, e2>>>> :
                   k1 \in FileKeys, k2 \in FileKeys,
                   e1 \in FileEntries, e2 \in FileEntries} :
             d[1][1] # d[2][1]}

\* entry.get("depth_reached") or 0
DepthOr0(entry) == IF entry.depth = -1 THEN 0 ELSE entry.depth

\* try: normalize_fen(old_key) except: old_key
MigratedKey(old_key) ==
    IF normalize_fen(old_key) = ValueError THEN old_key
    ELSE normalize_fen(old_key)

\* on a collision the later entry always taken
KeepLater(a, b) == TRUE

\* `if b > a: new[nk] = entry`
KeepIncoming(a, b) == b > a

RECURSIVE MigrateInto(_, _)
MigrateInto(new, cache) ==
    IF cache = <<>> THEN new
    ELSE LET nk == MigratedKey(Head(cache)[1])
             entry == Head(cache)[2]
             new2 == IF nk \in Keys(new)
                       THEN IF KeepIncoming(DepthOr0(Get(new, nk)),
                                            DepthOr0(entry))
                              THEN Put(new, nk, entry) ELSE new
                       ELSE Append(new, <<nk, entry>>)
         IN  MigrateInto(new2, Tail(cache))

migrate_cache_keys(cache) == MigrateInto(<<>>, cache)

\* the entries of dict d whose key is re-keyed to nk
Candidates(d, nk) ==
    {d[k][2] : k \in {j \in 1..Len(d) : MigratedKey(d[j][1]) = nk}}

\* after holds, for every re-keyed key of the file and of the memory, one
\* of their entries, and none of them has a higher depth
IsMerge(memory, file, after) ==
    \A nk \in {MigratedKey(k) : k \in Keys(file) \cup Keys(memory)} :
        LET cands == Candidates(file, nk) \cup Candidates(memory, nk)
        IN  /\ nk \in Keys(after)
            /\ Get(after, nk) \in cands
            /\ \A e \in cands : DepthOr0(Get(after, nk)) >= DepthOr0(e)

\* two entries of the file are re-keyed to one key
Collides(file) ==
    \E i, j \in 1..Len(file) :
        i < j /\ MigratedKey(file[i][1]) = MigratedKey(file[j][1])

\* every such pair left one entry, under the re-keyed key, of the higher
\* depth
CollisionResolved(file, after) ==
    \A i, j \in 1..Len(file) :
        (i < j /\ MigratedKey(file[i][1]) = MigratedKey(file[j][1])) =>
            LET nk == MigratedKey(file[i][1])
            IN  /\ Cardinality({k \in 1..Len(after) :
                                 MigratedKey(after[k][1]) = nk}) = 1
                /\ nk \in Keys(after)
                /\ Get(after, nk) \in {file[i][2], file[j][2]}
                /\ DepthOr0(Get(after, nk)) >= DepthOr0(file[i][2])
                /\ DepthOr0(Get(after, nk)) >= DepthOr0(file[j][2])

Loaded(isReload, memory, file, after) ==
    [done |-> TRUE, reload |-> isReload,
     merged |-> IsMerge(memory, file, after),
     collision |-> Collides(file),
     resolved |-> CollisionResolved(file, after)]

\* the cooperating process rewrites the cache file
ExternalWrite(content) ==
    /\ cfile' = content
    /\ cnewer' = TRUE
    /\ cext' = content
    /\ UNCHANGED <<cpc, use_fen_cache, fen_cache, cjobs, cprobe, cload,
                   cchecked>>
/\ UNCHANGED <<coreVars, streamVars, moveVars, rescueVars, admitVars,
             throttleVars, fenVars, jobVars, loopVars, timeVars, bookVars,
             guardLoopVars, paceVars>>

\* start(): the configuration is resolved and load_fen_cache() runs
CacheStart(enabled) ==
    /\ cpc = "boot"
    /\ cpc' = "run"
    /\ use_fen_cache' = enabled
    /\ IF ~enabled
         THEN UNCHANGED <<fen_cache, cfile, cnewer, cload>>
         ELSE LET raw == cfile
                  new == migrate_cache_keys(raw)
              IN  /\ fen_cache' = new
                  /\ cload' = Loaded(FALSE, fen_cache, raw, new)
                  /\ IF SameDict(new, raw)
                       THEN UNCHANGED <<cfile, cnewer>>
                       ELSE cfile' = new /\ cnewer' = TRUE
    /\ UNCHANGED <<cjobs, cprobe, cext, cchecked>>
/\ UNCHANGED <<coreVars, streamVars, moveVars, rescueVars, admitVars,
             throttleVars, fenVars, jobVars, loopVars, timeVars, bookVars,
             guardLoopVars, paceVars>>

\* probe_engine_with_cache with the cache disabled
ProbeDisabled(fen_full) ==
    /\ cpc = "run"
    /\ ~use_fen_cache
    /\ cprobe' = [done |-> TRUE, enabled |-> FALSE, present |-> FALSE,
                  stored |-> "", ret |-> LocalEntry.mv, engine |-> TRUE,
                  changed |-> FALSE]
    /\ UNCHANGED <<cpc, use_fen_cache, fen_cache, cfile, cnewer, cjobs,
                   cload, cext, cchecked>>
/\ UNCHANGED <<coreVars, streamVars, moveVars, rescueVars, admitVars,
             throttleVars, fenVars, jobVars, loopVars, timeVars, bookVars,
             guardLoopVars, paceVars>>

\* probe_engine_with_cache with the cache enabled; due says that
\* CACHE_HOT_RELOAD_MS have passed since the last check of the file, as
\* they have at the first one
ProbeEnabled(fen_full, due) ==
    /\ cpc = "run"
    /\ use_fen_cache
    /\ ~cchecked => due
    /\ cchecked' = TRUE
    /\ LET reloads == due /\ cnewer
           cache1 == IF reloads THEN migrate_cache_keys(cfile)
                     ELSE fen_cache
           key == normalize_fen(fen_full)
           hit == key \in Keys(cache1)
           cache2 == IF hit THEN cache1 ELSE Put(cache1, key, LocalEntry)
           jobs2 == IF ~hit /\ OFFLOAD_ON_MISS THEN cjobs \cup {key}
                    ELSE cjobs
           file2 == IF hit THEN cfile ELSE cache2
           was == key \in Keys(fen_cache)
       IN  /\ fen_cache' = cache2
           /\ cjobs' = jobs2
           /\ cfile' = file2
           /\ cnewer' = IF ~hit THEN TRUE
                        ELSE IF reloads THEN FALSE ELSE cnewer
           /\ cload' = IF reloads
                         THEN Loaded(TRUE, fen_cache, cfile, cache1)
                         ELSE cload
           /\ cprobe' =
                [done |-> TRUE, enabled |-> TRUE, present |-> was,
                 stored |-> IF was THEN Get(fen_cache, key).mv ELSE "",
                 ret |-> IF hit THEN Get(cache1, key).mv
                         ELSE LocalEntry.mv,
                 engine |-> ~hit,
                 changed |-> \/ ~SameDict(cache2, fen_cache)
                             \/ ~SameDict(file2, cfile)
                             \/ jobs2 # cjobs]
    /\ UNCHANGED <<cpc, use_fen_cache, cext>>
/\ UNCHANGED <<coreVars, streamVars, moveVars, rescueVars, admitVars,
             throttleVars, fenVars, jobVars, loopVars, timeVars, bookVars,
             guardLoopVars, paceVars>>

NextCache ==
    \/ \E content \in FileContents : ExternalWrite(content)
    \/ \E enabled \in BOOLEAN : CacheStart(enabled)
    \/ \E fen_full \in BoardFens : ProbeDisabled(fen_full)
    \/ \E fen_full \in BoardFens, due \in BOOLEAN :
           ProbeEnabled(fen_full, due)

SpecCache == Init /\ [][NextCache]_vars

\* C23: with the cache enabled a probe of a position whose key is in the
\* in-memory cache returns the stored move, does not invoke the engine and
\* changes neither the cache, the cache file nor the job directory; with
\* the cache disabled a probe invokes the engine and changes none of them.
C23_ProbeContract ==
    cprobe.done =>
        /\ (cprobe.enabled /\ cprobe.present) =>
               /\ cprobe.ret = cprobe.stored
               /\ ~cprobe.engine
               /\ ~cprobe.changed
        /\ ~cprobe.enabled => (cprobe.engine /\ ~cprobe.changed)

\* C24: a reload after the file's modification time advanced leaves every
\* entry of the file and every entry of the memory under its normalized
\* key, the one of higher depth where two meet.
C24_ReloadMerges ==
    (cload.done /\ cload.reload) => cload.merged

\* C25: a loaded file with two entries whose keys normalize to one
\* fingerprint leaves exactly one entry for it, the one of higher depth
\* (no depth counting as 0), in whichever order the file has them.
C25_CollisionKeepsDeeper ==
    (cload.done /\ cload.collision) => cload.resolved

C25_Witness ==
    /\ cload.done
    /\ cload.collision
    /\ cload.resolved
    /\ fen_cache # <<>>
    /\ Get(fen_cache, FenK1).depth = 20

\* C38: every entry the cooperating process wrote is still in the cache
\* file, under its key or its normalized key, or an entry of greater depth
\* is there for that key.
C38_ExternalEntriesKept ==
    \A k \in 1..Len(cext) :
        \E j \in 1..Len(cfile) :
            /\ cfile[j][1] \in {cext[k][1], MigratedKey(cext[k][1])}
            /\ \/ cfile[j][2] = cext[k][2]
               \/ DepthOr0(cfile[j][2]) > DepthOr0(cext[k][2])

(***************************************************************************)
(* enqueue_fen_job by the sessions' threads, for one position: all of them *)
(* use the same two names of the queue directory, key.json.tmp and         *)
(* key.json.  A name is bound to an inode (0: no such file), an inode has  *)
(* a content, an open file writes to its inode whatever the names do.  The *)
(* text of a job is a sequence of units <<session, k, length>>; the jobs   *)
(* of two sessions differ in fen_full, ts and tag, hence also in length.   *)
(***************************************************************************)
\* calls of enqueue_fen_job per session
MaxEnqueues == 2

\* lengths of a job text
JobLengths == {1, 2}

JobText(s, n) == [k \in 1..n |-> <<s, k, n>>]

\* f.write at offset 0 of an inode holding old
Overwrite(old, text) ==
    IF Len(old) <= Len(text) THEN text
    ELSE text \o SubSeq(old, Len(text) + 1, Len(old))

\* open(tmp, "w"): the file is made, or the one there is truncated
JobOpen(s, n) ==
    /\ jpc[s] = "idle"
    /\ jcalls[s] < MaxEnqueues
    /\ jcalls' = [jcalls EXCEPT ![s] = @ + 1]
    /\ jlen' = [jlen EXCEPT ![s] = n]
    /\ jerr' = [jerr EXCEPT ![s] = FALSE]
    /\ jpc' = [jpc EXCEPT ![s] = "opened"]
    /\ IF jtmp = 0
         THEN /\ jinode' = Append(jinode, <<>>)
              /\ jtmp' = Len(jinode) + 1
              /\ jfd' = [jfd EXCEPT ![s] = Len(jinode) + 1]
         ELSE /\ jinode' = [jinode EXCEPT ![jtmp] = <<>>]
              /\ jfd' = [jfd EXCEPT ![s] = jtmp]
              /\ UNCHANGED jtmp
    /\ UNCHANGED jfin
/\ UNCHANGED <<coreVars, streamVars, moveVars, rescueVars, admitVars,
             throttleVars, fenVars, cacheVars, loopVars, timeVars, bookVars,
             guardLoopVars, paceVars>>

\* json.dump and the end of the with block: the text reaches the inode
JobClose(s) ==
    /\ jpc[s] = "opened"
    /\ jinode' = [jinode EXCEPT
                    ![jfd[s]] = Overwrite(@, JobText(s, jlen[s]))]
    /\ jfd' = [jfd EXCEPT ![s] = 0]
    /\ jpc' = [jpc EXCEPT ![s] = "closed"]
    /\ UNCHANGED <<jlen, jtmp, jfin, jcalls, jerr>>
/\ UNCHANGED <<coreVars, streamVars, moveVars, rescueVars, admitVars,
             throttleVars, fenVars, cacheVars, loopVars, timeVars, bookVars,
             guardLoopVars, paceVars>>

\* os.replace(tmp, fin), FileNotFoundError when tmp is gone; return
JobReplace(s) ==
    /\ jpc[s] = "closed"
    /\ jpc' = [jpc EXCEPT ![s] = "idle"]
    /\ IF jtmp = 0
         THEN /\ jerr' = [jerr EXCEPT ![s] = TRUE]
              /\ UNCHANGED <<jtmp, jfin>>
         ELSE /\ jfin' = jtmp
              /\ jtmp' = 0
              /\ UNCHANGED jerr
    /\ UNCHANGED <<jlen, jfd, jinode, jcalls>>
/\ UNCHANGED <<coreVars, streamVars, moveVars, rescueVars, admitVars,
             throttleVars, fenVars, cacheVars, loopVars, timeVars, bookVars,
             guardLoopVars, paceVars>>

NextJob ==
    \/ \E s \in 1..MaxSessions, n \in JobLengths : JobOpen(s, n)
    \/ \E s \in 1..MaxSessions : JobClose(s)
    \/ \E s \in 1..MaxSessions : JobReplace(s)

SpecJob == Init /\ [][NextJob]_vars

CompleteJob(text) ==
    /\ text # <<>>
    /\ \E s \in 1..MaxSessions : text = JobText(s, Len(text))

FinalNeverPartial == jfin # 0 => CompleteJob(jinode[jfin])

AllReturned ==
    \A s \in 1..MaxSessions : jpc[s] = "idle" /\ jcalls[s] > 0

\* C27: the job file key.json never holds a partially written job, and
\* once every session's enqueue of the position has returned it exists and
\* holds a complete job.
C27_JobFileAtomic ==
    /\ FinalNeverPartial
    /\ AllReturned => (jfin # 0 /\ CompleteJob(jinode[jfin]))

(***************************************************************************)
(* The event loop of handle_game, with the board.  The board object is     *)
(* its move stack; a move is "m" (an ordinary move), "k" (a move that ends *)
(* the game) or "x" (text that push_uci rejects); no move is legal on a    *)
(* board that is game-over.  White is to move on an even stack.            *)
(***************************************************************************)
\* moves of an event's move list
MaxPlies == 2

MoveTexts == {"m", "k", "x"}

RECURSIVE SeqsUpTo(_, _)
SeqsUpTo(S, n) ==
    IF n = 0 THEN {<<>>}
    ELSE LET shorter == SeqsUpTo(S, n - 1)
         IN  shorter \cup {Append(q, x) : q \in shorter, x \in S}

MoveLists == SeqsUpTo(MoveTexts, MaxPlies)

\* board.is_game_over()
IsGameOver(board) == board # <<>> /\ board[Len(board)] = "k"

\* board.turn
Turn(board) == IF Len(board) % 2 = 0 THEN "white" ELSE "black"

\* try: board.push_uci(mv) except: pass
PushUci(board, mv) ==
    IF mv = "x" \/ IsGameOver(board) THEN board ELSE Append(board, mv)

RECURSIVE PushAll(_, _)
PushAll(board, moves) ==
    IF moves = <<>> THEN board
    ELSE PushAll(PushUci(board, Head(moves)), Tail(moves))

\* the moves pushed on the board as it stands
SyncOnTop(board, moves) == PushAll(board, moves)

\* board.reset(); for mv in moves: push
SyncBoard(board, moves) == PushAll(<<>>, moves)

\* what safe_make_move can do on the board: push the move it submitted,
\* fail, or find no move and submit a resignation
PipelineOutcomes(board) ==
    IF IsGameOver(board) THEN {"failed", "nomove"}
    ELSE {"m", "k", "failed"}

\* the steps of safe_make_move and the board it leaves
PipelineSteps(out) ==
    IF out = "nomove" THEN <<"pipeline", "resign_submit">>
    ELSE IF out = "failed" THEN <<"pipeline">>
    ELSE <<"pipeline", "move_submit">>

PipelineBoard(board, out) ==
    IF out \in {"m", "k"} THEN Append(board, out) ELSE board

\* handle_game is entered with my_color_init
LoopStart(my_color_init) ==
    /\ lrun = "new"
    /\ lrun' = "stream"
    /\ lcolor' = my_color_init
    /\ UNCHANGED <<lexit, lboard, lkind, lmoves, lsynced, lstale, lsteps>>
/\ UNCHANGED <<coreVars, streamVars, moveVars, rescueVars, admitVars,
             throttleVars, fenVars, cacheVars, jobVars, timeVars, bookVars,
             guardLoopVars, paceVars>>

\* an event whose status is terminal: ensure_my_color, then break
LoopTerminal(et, white_is_me, export) ==
    /\ lrun = "stream"
    /\ lrun' = "ended"
    /\ lexit' = "terminal"
    /\ lkind' = et
    /\ lcolor' = IF lcolor # "none" THEN lcolor
                 ELSE IF et = "gameFull"
                   THEN IF white_is_me THEN "white" ELSE "black"
                   ELSE export
    /\ lsteps' = <<>>
    /\ UNCHANGED <<lboard, lmoves, lsynced, lstale>>
/\ UNCHANGED <<coreVars, streamVars, moveVars, rescueVars, admitVars,
             throttleVars, fenVars, cacheVars, jobVars, timeVars, bookVars,
             guardLoopVars, paceVars>>

\* a gameFull event that is not terminal
LoopGameFull(white_is_me, moves, out) ==
    /\ lrun = "stream"
    /\ LET color == IF lcolor # "none" THEN lcolor
                    ELSE IF white_is_me THEN "white" ELSE "black"
           board == SyncBoard(lboard, moves)
           plays == Turn(board) = color /\ ~IsGameOver(board)
       IN  /\ out \in PipelineOutcomes(board)
           /\ ~plays => out = "failed"
           /\ lcolor' = color
           /\ lkind' = "gameFull"
           /\ lmoves' = moves
           /\ lsynced' = board
           /\ lstale' = (lboard # board)
           /\ lsteps' = IF plays THEN PipelineSteps(out) ELSE <<>>
           /\ lboard' = IF plays THEN PipelineBoard(board, out) ELSE board
    /\ UNCHANGED <<lrun, lexit>>
/\ UNCHANGED <<coreVars, streamVars, moveVars, rescueVars, admitVars,
             throttleVars, fenVars, cacheVars, jobVars, timeVars, bookVars,
             guardLoopVars, paceVars>>

\* a gameState event that is not terminal; export is what the fallback of
\* ensure_my_color finds ("none": the export failed), resign what
\* should_resign and the resignation it leads to do
LoopGameState(export, moves, resign, out) ==
    /\ lrun = "stream"
    /\ lcolor # "none" => export = "none"
    /\ LET color == IF lcolor # "none" THEN lcolor ELSE export
           board == SyncBoard(lboard, moves)
           plays == color # "none" /\ Turn(board) = color
           checks == IF resign = "no" THEN <<"resign_check">>
                     ELSE <<"resign_check", "resign_submit">>
       IN  /\ out \in PipelineOutcomes(board)
           /\ (~plays \/ resign = "resigned") => out = "failed"
           /\ ~plays => resign = "no"
           /\ lcolor' = color
           /\ lkind' = "gameState"
           /\ lmoves' = moves
           /\ lsynced' = board
           /\ lstale' = (lboard # board)
           /\ IF ~plays
                THEN /\ lsteps' = <<>>
                     /\ lboard' = board
                     /\ UNCHANGED <<lrun, lexit>>
                ELSE IF resign = "resigned"
                  THEN /\ lsteps' = checks
                       /\ lboard' = board
                       /\ lrun' = "ended"
                       /\ lexit' = "resigned"
                  ELSE /\ lsteps' = checks \o PipelineSteps(out)
                       /\ lboard' = PipelineBoard(board, out)
                       /\ UNCHANGED <<lrun, lexit>>
/\ UNCHANGED <<coreVars, streamVars, moveVars, rescueVars, admitVars,
             throttleVars, fenVars, cacheVars, jobVars, timeVars, bookVars,
             guardLoopVars, paceVars>>

\* chatLine and other types are ignored
LoopOther ==
    /\ lrun = "stream"
    /\ lkind' = "chatLine"
    /\ lsteps' = <<>>
    /\ UNCHANGED <<lrun, lexit, lcolor, lboard, lmoves, lsynced, lstale>>
/\ UNCHANGED <<coreVars, streamVars, moveVars, rescueVars, admitVars,
             throttleVars, fenVars, cacheVars, jobVars, timeVars, bookVars,
             guardLoopVars, paceVars>>

Colors == {"white", "black"}

NextLoop ==
    \/ \E c \in Colors \cup {"none"} : LoopStart(c)
    \/ \E et \in {"gameFull", "gameState"}, w \in BOOLEAN,
          export \in Colors \cup {"none"} : LoopTerminal(et, w, export)
    \/ \E w \in BOOLEAN, moves \in MoveLists,
          out \in {"m", "k", "failed", "nomove"} :
           LoopGameFull(w, moves, out)
    \/ \E export \in Colors \cup {"none"}, moves \in MoveLists,
          resign \in {"no", "resigned", "refused"},
          out \in {"m", "k", "failed", "nomove"} :
           LoopGameState(export, moves, resign, out)
    \/ LoopOther

SpecLoop == Init /\ [][NextLoop]_vars

\* the last event handled synced the board
Synced == lkind \in {"gameFull", "gameState"} /\ lexit # "terminal"

Invoked(step) == \E k \in 1..Len(lsteps) : lsteps[k] = step

\* C29: when the rebuilt board is game-over the loop has ended, and
\* neither the resignation check nor the pipeline was invoked nor a
\* resignation submitted on it.
C29_GameOverEndsLoop ==
    (Synced /\ IsGameOver(lsynced)) =>
        /\ lrun = "ended"
        /\ ~Invoked("resign_check")
        /\ ~Invoked("pipeline")
        /\ ~Invoked("resign_submit")

\* C30: when the pipeline ran, after a full snapshot or an update, the
\* resignation check ran first and did not end in a resignation, and the
\* colour was resolved and to move.
C30_ResignCheckFirst ==
    Invoked("pipeline") =>
        /\ lsteps[1] = "resign_check"
        /\ lexit # "resigned"
        /\ lcolor # "none"
        /\ lcolor = Turn(lsynced)

(***************************************************************************)
(* compute_movetime (compute_time_management.py) and the think time of the *)
(* normal search.  Seconds are exact fractions <<n, d>> in lowest terms,   *)
(* d > 0; fractions are compared by their continued fractions, so that no  *)
(* product of two denominators is ever formed.                             *)
(***************************************************************************)
NoCall ==
    [done |-> FALSE, ply |-> 0, clamped |-> FALSE, budget |-> <<0, 1>>,
     jitter |-> <<1, 1>>, ret |-> <<0, 1>>]

NoThink == [done |-> FALSE, ply |-> 0, guard |-> <<0, 1>>, think |-> <<0, 1>>]

RECURSIVE Gcd(_, _)
Gcd(a, b) == IF b = 0 THEN a ELSE Gcd(b, a % b)

Abs(a) == IF a < 0 THEN 0 - a ELSE a

Rat(n, d) == <<n \div Gcd(Abs(n), d), d \div Gcd(Abs(n), d)>>

RMul(x, y) ==
    LET g1 == Gcd(Abs(x[1]), y[2])
        g2 == Gcd(Abs(y[1]), x[2])
    IN  <<(x[1] \div g1) * (y[1] \div g2), (x[2] \div g2) * (y[2] \div g1)>>

RAdd(x, y) == Rat(x[1] * y[2] + y[1] * x[2], x[2] * y[2])

RSub(x, y) == RAdd(x, <<0 - y[1], y[2]>>)

RECURSIVE RLess(_, _)
RLess(x, y) ==
    LET qx == x[1] \div x[2]
        qy == y[1] \div y[2]
        rx == x[1] % x[2]
        ry == y[1] % y[2]
    IN  IF qx # qy THEN qx < qy
        ELSE IF ry = 0 THEN FALSE
        ELSE IF rx = 0 THEN TRUE
        ELSE RLess(<<y[2], ry>>, <<x[2], rx>>)

RLeq(x, y) == ~RLess(y, x)

RMin(x, y) == IF RLess(y, x) THEN y ELSE x

RMax(x, y) == IF RLess(x, y) THEN y ELSE x

\* `safe_bank = 3.0 + 1.0 * I`
SafeBank(inc) == RAdd(<<3, 1>>, inc)

\* remaining moves expected, by the base time
RemainingMoves(base_minutes) ==
    IF base_minutes >= 15 THEN 35 ELSE IF base_minutes >= 5 THEN 25 ELSE 15

\* every phase scaled as the middlegame
FlatPhaseScale(P) == <<6, 5>>

PhaseScale(P) ==
    IF P < 20 THEN <<3, 2>> ELSE IF P < 60 THEN <<6, 5>> ELSE <<1, 1>>

\* the budget before the jitter, past the sudden-death branch
Budget(rem, inc, P, in_check, forced, base_minutes) ==
    LET RM == RemainingMoves(base_minutes)
        pool == RAdd(RSub(rem, SafeBank(inc)),
                     RMul(RMul(<<1, 2>>, inc), <<RM, 1>>))
        b0 == RMul(pool, <<1, RM>>)
        b1 == RMul(b0, PhaseScale(P))
        b2 == IF in_check THEN RMul(b1, <<13, 10>>) ELSE b1
        b3 == IF forced THEN RMul(b2, <<7, 10>>) ELSE b2
        b4 == RMin(b3, RSub(rem, SafeBank(inc)))
        b5 == RMin(b4, <<60, 1>>)
    IN  RMax(b5, <<2, 1>>)

\* compute_movetime; jitter is what random.uniform(0.85, 1.15) gave
compute_movetime(rem, inc, P, in_check, forced, base_minutes, jitter) ==
    IF RLeq(rem, SafeBank(inc))
      THEN [done |-> TRUE, ply |-> P, clamped |-> FALSE,
            budget |-> <<0, 1>>, jitter |-> <<1, 1>>,
            ret |-> RMax(<<1, 5>>, RMul(rem, <<1, 4>>))]
      ELSE [done |-> TRUE, ply |-> P, clamped |-> TRUE,
            budget |-> Budget(rem, inc, P, in_check, forced, base_minutes),
            jitter |-> jitter,
            ret |-> RMul(Budget(rem, inc, P, in_check, forced, base_minutes),
                         jitter)]

\* clocks and increments of the situations, in tenths of a second
ClockTenths == {0, 5, 20, 35, 125, 9000}
IncrementTenths == {0, 100}
BaseMinutes == {3, 15}
Plies == {5, 40, 65}
Jitters == {<<17, 20>>, <<23, 20>>}

\* a position with its clock comes up
TimeSetup(t, i, base, chk, frc) ==
    /\ tsit' = [set |-> TRUE, rem |-> Rat(t, 10), inc |-> Rat(i, 10),
                base |-> base, in_check |-> chk, forced |-> frc]
    /\ tcall' = NoCall
    /\ tprev' = NoCall
    /\ tthink' = NoThink
/\ UNCHANGED <<coreVars, streamVars, moveVars, rescueVars, admitVars,
             throttleVars, fenVars, cacheVars, jobVars, loopVars, bookVars,
             guardLoopVars, paceVars>>

\* compute_movetime is called for the situation at ply P
TimeCall(P, jitter) ==
    /\ tsit.set
    /\ tcall' = compute_movetime(tsit.rem, tsit.inc, P, tsit.in_check,
                                 tsit.forced, tsit.base, jitter)
    /\ tprev' = tcall
    /\ tthink' = NoThink
    /\ UNCHANGED tsit
/\ UNCHANGED <<coreVars, streamVars, moveVars, rescueVars, admitVars,
             throttleVars, fenVars, cacheVars, jobVars, loopVars, bookVars,
             guardLoopVars, paceVars>>

\* _phase_cap_seconds_local with the default ceilings
PhaseCap(ply) ==
    IF ply < 30 THEN <<30, 1>> ELSE IF ply < 70 THEN <<45, 1>>
    ELSE <<60, 1>>

\* the ceiling left out
ThinkUncapped(movetime_s, ply, sec_left, guard) ==
    RMax(<<1, 50>>, RMin(movetime_s, RSub(sec_left, guard)))

\* min(movetime_s, cap), then max(0.02, min(movetime_s, sec_left - guard))
ThinkTime(movetime_s, ply, sec_left, guard) ==
    RMax(<<1, 50>>,
         RMin(RMin(movetime_s, PhaseCap(ply)), RSub(sec_left, guard)))

\* max(0.02, MOVE_OVERHEAD_MS / 1000.0) for 60 ms and for 5 s
Overheads == {<<3, 50>>, <<5, 1>>}

\* the normal search of safe_make_move with a known clock; the panic
\* tiers have returned for a clock of 12 s or less
TimeThink(P, jitter, overhead) ==
    /\ tsit.set
    /\ RLess(<<12, 1>>, tsit.rem)
    /\ LET call == compute_movetime(tsit.rem, tsit.inc, P, tsit.in_check,
                                    tsit.forced, tsit.base, jitter)
           guard == RMul(<<5, 2>>, overhead)
       IN  /\ tcall' = call
           /\ tprev' = tcall
           /\ tthink' = [done |-> TRUE, ply |-> P, guard |-> guard,
                          think |-> ThinkTime(call.ret, P, tsit.rem, guard)]
    /\ UNCHANGED tsit
/\ UNCHANGED <<coreVars, streamVars, moveVars, rescueVars, admitVars,
             throttleVars, fenVars, cacheVars, jobVars, loopVars, bookVars,
             guardLoopVars, paceVars>>

NextTime ==
    \/ \E t \in ClockTenths, i \in IncrementTenths, base \in BaseMinutes,
          chk \in BOOLEAN, frc \in BOOLEAN : TimeSetup(t, i, base, chk, frc)
    \/ \E P \in Plies, jitter \in Jitters : TimeCall(P, jitter)
    \/ \E P \in Plies, jitter \in Jitters, overhead \in Overheads :
           TimeThink(P, jitter, overhead)

SpecTime == Init /\ [][NextTime]_vars

\* C31: with the clock at most 3 s plus the increment, compute_movetime
\* returns at most a quarter of the clock.
C31_SuddenDeathQuarter ==
    (tcall.done /\ RLeq(tsit.rem, RAdd(<<3, 1>>, tsit.inc))) =>
        RLeq(tcall.ret, RMul(tsit.rem, <<1, 4>>))

\* C32: with the clock above the bank of 3 s plus the increment, the budget
\* before the jitter is within [2 s, 60 s] and at most the clock less the
\* bank, and the value returned is the budget times a factor in
\* [0.85, 1.15].
C32_BudgetClamped ==
    (tcall.done /\ RLess(RAdd(<<3, 1>>, tsit.inc), tsit.rem)) =>
        /\ RLeq(<<2, 1>>, tcall.budget)
        /\ RLeq(tcall.budget, <<60, 1>>)
        /\ RLeq(tcall.budget, RSub(tsit.rem, RAdd(<<3, 1>>, tsit.inc)))
        /\ RLeq(<<17, 20>>, tcall.jitter)
        /\ RLeq(tcall.jitter, <<23, 20>>)
        /\ tcall.ret = RMul(tcall.budget, tcall.jitter)

\* the situation of 900 s, 10 s increment, base 15, no check, not forced
Scenario900 ==
    /\ tsit.rem = <<900, 1>>
    /\ tsit.inc = <<10, 1>>
    /\ tsit.base = 15
    /\ ~tsit.in_check
    /\ ~tsit.forced
    /\ tcall.done
    /\ tprev.done

C34_ThinkCapped ==
    tthink.done =>
        \/ tthink.think = <<1, 50>>
        \/ /\ RLeq(tthink.think,
                   IF tthink.ply < 30 THEN <<30, 1>>
                   ELSE IF tthink.ply < 70 THEN <<45, 1>> ELSE <<60, 1>>)
           /\ RLeq(tthink.think, RSub(tsit.rem, tthink.guard))

C34_Witness ==
    /\ tthink.done
    /\ tthink.ply = 5
    /\ tthink.think = <<30, 1>>
    /\ tsit.rem = <<900, 1>>

(***************************************************************************)
(* _find_book_move: the chooser over the readers resolved for the turn.    *)
(* A reader's answer for the board is a sequence of entries                *)
(* <<move, weight>> (empty: no entry, or find_all raised); a move is the   *)
(* rank of its UCI text in string order, 0 stands for None.                *)
(***************************************************************************)
BookMoves == {1, 2}
BookWeights == {10, 15, 20}
BookEntries == BookMoves \X BookWeights

\* what one reader finds: up to two entries
BookFinds ==
    {<<>>} \cup {<<e>> : e \in BookEntries}
    \cup {<<e1, e2>> : e1 \in BookEntries, e2 \in BookEntries}

\* the readers of the list: one or two
ReaderLists ==
    {<<f>> : f \in BookFinds} \cup {<<f, g>> : f \in BookFinds, g \in BookFinds}

\* entries.sort(key=weight, reverse=True)[0] of a non-empty list: the first
\* entry of the greatest weight (the sort is stable)
TopEntry(entries) ==
    LET k == CHOOSE i \in 1..Len(entries) :
                 /\ \A j \in 1..Len(entries) : entries[j][2] <= entries[i][2]
                 /\ \A j \in 1..(i - 1) : entries[j][2] < entries[i][2]
    IN  entries[k]

\* first_match: the top entry of the first reader that has an entry
FirstMatch(readers) ==
    IF \A i \in 1..Len(readers) : readers[i] = <<>> THEN 0
    ELSE LET i == CHOOSE i \in 1..Len(readers) :
                      /\ readers[i] # <<>>
                      /\ \A j \in 1..(i - 1) : readers[j] = <<>>
         IN  TopEntry(readers[i])[1]

\* candidates: move -> <<weight, idx>>, <<0, 0>> while the move is not in
\* it; one entry of reader idx is taken in
TakeEntry(candidates, e, idx) ==
    LET cur == candidates[e[1]]
    IN  IF cur = <<0, 0>> \/ e[2] > cur[1] \/ (e[2] = cur[1] /\ idx < cur[2])
          THEN [candidates EXCEPT ![e[1]] = <<e[2], idx>>]
          ELSE candidates

RECURSIVE TakeEntries(_, _, _)
TakeEntries(candidates, entries, idx) ==
    IF entries = <<>> THEN candidates
    ELSE TakeEntries(TakeEntry(candidates, Head(entries), idx),
                     Tail(entries), idx)

RECURSIVE TakeReaders(_, _, _)
TakeReaders(candidates, readers, idx) ==
    IF idx > Len(readers) THEN candidates
    ELSE TakeReaders(TakeEntries(candidates, readers[idx], idx),
                     readers, idx + 1)

\* sorted(..., key=(-weight, idx, uci)): a before b
SortsBefore(a, ca, b, cb) ==
    \/ ca[1] > cb[1]
    \/ ca[1] = cb[1] /\ ca[2] < cb[2]
    \/ ca[1] = cb[1] /\ ca[2] = cb[2] /\ a < b

\* the best_move policy
BestMove(readers) ==
    LET candidates ==
            TakeReaders([m \in BookMoves |-> <<0, 0>>], readers, 1)
        present == {m \in BookMoves : candidates[m] # <<0, 0>>}
    IN  IF present = {} THEN 0
        ELSE CHOOSE m \in present :
                 \A o \in present \ {m} :
                     SortsBefore(m, candidates[m], o, candidates[o])

\* _find_book_move for the readers' answers
BookCall(policy, readers) ==
    /\ ~bdone
    /\ bpolicy' = policy
    /\ breaders' = readers
    /\ bmove' = IF policy = "first_match" THEN FirstMatch(readers)
                ELSE BestMove(readers)
    /\ bdone' = TRUE
/\ UNCHANGED <<coreVars, streamVars, moveVars, rescueVars, admitVars,
             throttleVars, fenVars, cacheVars, jobVars, loopVars, timeVars,
             guardLoopVars, paceVars>>

\* safe_make_move has taken the answer; the next call is for another board
BookTaken ==
    /\ bdone
    /\ bpolicy' = "best_move"
    /\ breaders' = <<>>
    /\ bmove' = 0
    /\ bdone' = FALSE
/\ UNCHANGED <<coreVars, streamVars, moveVars, rescueVars, admitVars,
             throttleVars, fenVars, cacheVars, jobVars, loopVars, timeVars,
             guardLoopVars, paceVars>>

NextBook ==
    \/ \E policy \in {"best_move", "first_match"}, readers \in ReaderLists :
           BookCall(policy, readers)
    \/ BookTaken

SpecBook == Init /\ [][NextBook]_vars

\* the greatest weight reader i has for move m, 0 if it has none
WeightIn(i, m) ==
    LET ws == {breaders[i][k][2] :
                 k \in {j \in 1..Len(breaders[i]) : breaders[i][j][1] = m}}
    IN  IF ws = {} THEN 0 ELSE CHOOSE w \in ws : \A v \in ws : v <= w

\* the greatest weight any reader has for move m
WeightOf(m) ==
    CHOOSE w \in {WeightIn(i, m) : i \in 1..Len(breaders)} :
        \A i \in 1..Len(breaders) : WeightIn(i, m) <= w

\* the first reader that has move m at its greatest weight
BookOf(m) ==
    CHOOSE i \in 1..Len(breaders) :
        /\ WeightIn(i, m) = WeightOf(m)
        /\ \A j \in 1..(i - 1) : WeightIn(j, m) < WeightOf(m)

\* C35: under best_move the move returned has the greatest weight over all
\* books; among the moves of that weight it is the one of the earlier
\* book, then of the smaller UCI text; without any entry None is returned.
\* X at 10 in book A and Y at 20 in book B give Y; X at 15 in A and Y at
\* 15 in B give X.
C35_BestMoveChooser ==
    (bdone /\ bpolicy = "best_move") =>
        /\ (\A m \in BookMoves : WeightOf(m) = 0) <=> bmove = 0
        /\ bmove # 0 =>
             \A o \in BookMoves \ {bmove} :
                 \/ WeightOf(o) < WeightOf(bmove)
                 \/ /\ WeightOf(o) = WeightOf(bmove)
                    /\ \/ BookOf(bmove) < BookOf(o)
                       \/ BookOf(bmove) = BookOf(o) /\ bmove < o
        /\ breaders = <<<<<<1, 10>>>>, <<<<2, 20>>>>>> => bmove = 2
        /\ breaders = <<<<<<2, 15>>>>, <<<<1, 15>>>>>> => bmove = 2
        /\ breaders = <<<<<<1, 15>>>>, <<<<2, 15>>>>>> => bmove = 1

C35_Witness ==
    /\ bdone
    /\ bpolicy = "best_move"
    /\ breaders = <<<<<<2, 15>>, <<1, 10>>>>, <<<<1, 15>>>>>>
    /\ bmove = 2

(***************************************************************************)
(* challenger_loop and the registry guard.  The loop is one more thread    *)
(* that takes `lock`, a threading.Lock, next to the callers of claim_game, *)
(* remove_active and inc_result.  server_has_active keeps its answer for   *)
(* ttl = 5 s: wfresh says that the answer is younger than that; every      *)
(* sleep of the loop (10 s, 20 s) outlasts it.  pending_challenges is      *)
(* empty throughout, nothing adds to it.                                   *)
(***************************************************************************)
\* the places where the loop enters a `with lock:` block, and the place
\* it is at inside the block
LockEntries ==
    [sweep |-> "in_sweep", snap |-> "in_snap", walk |-> "in_walk",
     refetch |-> "in_refetch", relock |-> "in_relock"]

\* `with lock:` is entered: the thread waits until the lock is free
ChTake ==
    /\ wpc \in DOMAIN LockEntries
    /\ lock = Free
    /\ lock' = Challenger
    /\ wpc' = LockEntries[wpc]
    /\ UNCHANGED <<wfresh, wbusy>>
    /\ UNCHANGED <<active_games, wins, losses, draws, game_limit, pc, tgid,
                 tcolor, tret, tkind, ttmp, engine, sexit, sres, finalized,
                 started, inc_done, inc_begun, gstatus, gwinner, http_lock,
                 inflight, retryVars, streamVars, moveVars, rescueVars,
                 admitVars, throttleVars, fenVars, cacheVars, jobVars,
                 loopVars, timeVars, bookVars, paceVars>>

\* sweep_stale_pendings leaves its block
ChSweepEnd ==
    /\ wpc = "in_sweep"
    /\ lock' = Free
    /\ wpc' = "snap"
    /\ UNCHANGED <<wfresh, wbusy>>
    /\ UNCHANGED <<active_games, wins, losses, draws, game_limit, pc, tgid,
                 tcolor, tret, tkind, ttmp, engine, sexit, sres, finalized,
                 started, inc_done, inc_begun, gstatus, gwinner, http_lock,
                 inflight, retryVars, streamVars, moveVars, rescueVars,
                 admitVars, throttleVars, fenVars, cacheVars, jobVars,
                 loopVars, timeVars, bookVars, paceVars>>

\* the snapshot of the capacity is taken; full or not idle: sleep(10)
ChSnapEnd ==
    /\ wpc = "in_snap"
    /\ lock' = Free
    /\ IF \/ Cardinality(active_games) >= MAX_ACTIVE_GAMES
          \/ OUTGOING_ONLY_WHEN_IDLE /\ active_games # {}
         THEN wpc' = "sweep" /\ wfresh' = FALSE
         ELSE /\ wpc' = IF OUTGOING_ONLY_WHEN_IDLE THEN "check" ELSE "bots"
              /\ UNCHANGED wfresh
    /\ UNCHANGED wbusy
    /\ UNCHANGED <<active_games, wins, losses, draws, game_limit, pc, tgid,
                 tcolor, tret, tkind, ttmp, engine, sexit, sres, finalized,
                 started, inc_done, inc_begun, gstatus, gwinner, http_lock,
                 inflight, retryVars, streamVars, moveVars, rescueVars,
                 admitVars, throttleVars, fenVars, cacheVars, jobVars,
                 loopVars, timeVars, bookVars, paceVars>>

\* server_has_active() outside the lock; fetch is what get_ongoing does
\* if it is asked
ChCheck(fetch) ==
    /\ wpc = "check"
    /\ wfresh => fetch = "idle"
    /\ IF wfresh
         THEN /\ wpc' = IF wbusy THEN "sweep" ELSE "bots"
              /\ wfresh' = ~wbusy
              /\ UNCHANGED wbusy
         ELSE IF fetch = "fail"
           THEN wpc' = "refetch" /\ UNCHANGED <<wfresh, wbusy>>
           ELSE /\ wbusy' = (fetch = "busy")
                /\ wpc' = IF fetch = "busy" THEN "sweep" ELSE "bots"
                /\ wfresh' = (fetch # "busy")
    /\ UNCHANGED lock
    /\ UNCHANGED <<active_games, wins, losses, draws, game_limit, pc, tgid,
                 tcolor, tret, tkind, ttmp, engine, sexit, sres, finalized,
                 started, inc_done, inc_begun, gstatus, gwinner, http_lock,
                 inflight, retryVars, streamVars, moveVars, rescueVars,
                 admitVars, throttleVars, fenVars, cacheVars, jobVars,
                 loopVars, timeVars, bookVars, paceVars>>

\* the except branch of server_has_active, entered without the lock:
\* cached_now_playing = len(active_games)
ChRefetchEnd ==
    /\ wpc = "in_refetch"
    /\ lock' = Free
    /\ wbusy' = (active_games # {})
    /\ wpc' = IF active_games # {} THEN "sweep" ELSE "bots"
    /\ wfresh' = (active_games = {})
    /\ UNCHANGED <<active_games, wins, losses, draws, game_limit, pc, tgid,
                 tcolor, tret, tkind, ttmp, engine, sexit, sres, finalized,
                 started, inc_done, inc_begun, gstatus, gwinner, http_lock,
                 inflight, retryVars, streamVars, moveVars, rescueVars,
                 admitVars, throttleVars, fenVars, cacheVars, jobVars,
                 loopVars, timeVars, bookVars, paceVars>>

\* the list of bots is there or fetched; slow: the fetch took over 5 s
ChBots(found, slow) ==
    /\ wpc = "bots"
    /\ wpc' = IF found THEN "walk" ELSE "sweep"
    /\ wfresh' = (wfresh /\ found /\ ~slow)
    /\ UNCHANGED <<lock, wbusy>>
    /\ UNCHANGED <<active_games, wins, losses, draws, game_limit, pc, tgid,
                 tcolor, tret, tkind, ttmp, engine, sexit, sres, finalized,
                 started, inc_done, inc_begun, gstatus, gwinner, http_lock,
                 inflight, retryVars, streamVars, moveVars, rescueVars,
                 admitVars, throttleVars, fenVars, cacheVars, jobVars,
                 loopVars, timeVars, bookVars, paceVars>>

\* the block of the candidate walk, entered with the lock held: the
\* capacity tests, and server_has_active() while idle
ChWalkCheck(fetch) ==
    /\ wpc = "in_walk"
    /\ (wfresh \/ active_games # {}) => fetch = "idle"
    /\ IF Cardinality(active_games) >= MAX_ACTIVE_GAMES \/ active_games # {}
         THEN lock' = Free /\ wpc' = "sweep" /\ UNCHANGED <<wfresh, wbusy>>
         ELSE IF ~OUTGOING_ONLY_WHEN_IDLE
           THEN lock' = Free /\ wpc' = "issue" /\ UNCHANGED <<wfresh, wbusy>>
           ELSE IF wfresh
             THEN /\ lock' = Free
                  /\ wpc' = IF wbusy THEN "sweep" ELSE "issue"
                  /\ UNCHANGED <<wfresh, wbusy>>
             ELSE IF fetch = "fail"
               THEN wpc' = "relock" /\ UNCHANGED <<lock, wfresh, wbusy>>
               ELSE /\ lock' = Free
                    /\ wbusy' = (fetch = "busy")
                    /\ wfresh' = TRUE
                    /\ wpc' = IF fetch = "busy" THEN "sweep" ELSE "issue"
    /\ UNCHANGED <<active_games, wins, losses, draws, game_limit, pc, tgid,
                 tcolor, tret, tkind, ttmp, engine, sexit, sres, finalized,
                 started, inc_done, inc_begun, gstatus, gwinner, http_lock,
                 inflight, retryVars, streamVars, moveVars, rescueVars,
                 admitVars, throttleVars, fenVars, cacheVars, jobVars,
                 loopVars, timeVars, bookVars, paceVars>>

\* should_challenge, challenge_bot, sleep(20); more: the list goes on
ChIssue(more) ==
    /\ wpc = "issue"
    /\ wpc' = IF more THEN "walk" ELSE "sweep"
    /\ wfresh' = FALSE
    /\ UNCHANGED <<lock, wbusy>>
    /\ UNCHANGED <<active_games, wins, losses, draws, game_limit, pc, tgid,
                 tcolor, tret, tkind, ttmp, engine, sexit, sres, finalized,
                 started, inc_done, inc_begun, gstatus, gwinner, http_lock,
                 inflight, retryVars, streamVars, moveVars, rescueVars,
                 admitVars, throttleVars, fenVars, cacheVars, jobVars,
                 loopVars, timeVars, bookVars, paceVars>>

Fetches == {"idle", "busy", "fail"}

NextGuardLoop ==
    \/ NextGuard
    \/ ChTake
    \/ ChSweepEnd
    \/ ChSnapEnd
    \/ \E fetch \in Fetches : ChCheck(fetch)
    \/ ChRefetchEnd
    \/ \E found \in BOOLEAN, slow \in BOOLEAN : ChBots(found, slow)
    \/ \E fetch \in Fetches : ChWalkCheck(fetch)
    \/ \E more \in BOOLEAN : ChIssue(more)

SpecGuardLoop == Init /\ [][NextGuardLoop]_vars

\* C36: the loop never waits for the guard while it holds the guard, so
\* that the guard is always released again and claim_game, remove_active
\* and inc_result can get it.
C36_GuardNeverBlocks ==
    ~(wpc = "relock" /\ lock = Challenger)

(***************************************************************************)
(* _http_lock between the challenger, which goes through http_throttle and *)
(* then _retry_call, and the sessions, which go through _retry_call.       *)
(* pfuture says that _next_http_ok_at lies in the future.                  *)
(***************************************************************************)
PaceThreads == {Challenger} \cup SessionThreads

\* challenge_bot: http_throttle() is called
PaceEnter ==
    /\ ppc[Challenger] = "idle"
    /\ ppc' = [ppc EXCEPT ![Challenger] = "throttle_lock"]
    /\ UNCHANGED <<plock, pfuture>>
/\ UNCHANGED <<coreVars, streamVars, moveVars, rescueVars, admitVars,
             throttleVars, fenVars, cacheVars, jobVars, loopVars, timeVars,
             bookVars, guardLoopVars>>

\* http_throttle: `with _http_lock:` is entered; then time.sleep if
\* now < _next_http_ok_at
PaceLock ==
    /\ ppc[Challenger] = "throttle_lock"
    /\ plock = Free
    /\ plock' = Challenger
    /\ ppc' = [ppc EXCEPT ![Challenger] =
                 IF pfuture THEN "throttle_sleep" ELSE "throttle_set"]
    /\ UNCHANGED pfuture
/\ UNCHANGED <<coreVars, streamVars, moveVars, rescueVars, admitVars,
             throttleVars, fenVars, cacheVars, jobVars, loopVars, timeVars,
             bookVars, guardLoopVars>>

\* the sleep of http_throttle is over
PaceSlept ==
    /\ ppc[Challenger] = "throttle_sleep"
    /\ ppc' = [ppc EXCEPT ![Challenger] = "throttle_set"]
    /\ pfuture' = FALSE
    /\ UNCHANGED plock
/\ UNCHANGED <<coreVars, streamVars, moveVars, rescueVars, admitVars,
             throttleVars, fenVars, cacheVars, jobVars, loopVars, timeVars,
             bookVars, guardLoopVars>>

\* _next_http_ok_at = time.time() + RATE_MIN_INTERVAL; the block is left,
\* and _retry_call("challenge_create", ...) is entered
PaceSet ==
    /\ ppc[Challenger] = "throttle_set"
    /\ pfuture' = TRUE
    /\ plock' = Released(Challenger)
    /\ ppc' = [ppc EXCEPT ![Challenger] = "call"]
/\ UNCHANGED <<coreVars, streamVars, moveVars, rescueVars, admitVars,
             throttleVars, fenVars, cacheVars, jobVars, loopVars, timeVars,
             bookVars, guardLoopVars>>

\* a session enters _retry_call (a move, a resignation, ...)
PaceCall(t) ==
    /\ ppc[t] = "idle"
    /\ ppc' = [ppc EXCEPT ![t] = "call"]
    /\ UNCHANGED <<plock, pfuture>>
/\ UNCHANGED <<coreVars, streamVars, moveVars, rescueVars, admitVars,
             throttleVars, fenVars, cacheVars, jobVars, loopVars, timeVars,
             bookVars, guardLoopVars>>

\* _retry_call: `with _http_lock:` is entered and the request sent
PaceSend(t) ==
    /\ ppc[t] = "call"
    /\ plock = Free
    /\ plock' = t
    /\ ppc' = [ppc EXCEPT ![t] = "send"]
    /\ UNCHANGED pfuture
/\ UNCHANGED <<coreVars, streamVars, moveVars, rescueVars, admitVars,
             throttleVars, fenVars, cacheVars, jobVars, loopVars, timeVars,
             bookVars, guardLoopVars>>

\* the request returns or raises, which leaves the block; after a 429 or a
\* transient error _retry_call sleeps, else the call is over
PaceAnswer(t, retried) ==
    /\ ppc[t] = "send"
    /\ plock' = Free
    /\ ppc' = [ppc EXCEPT ![t] = IF retried THEN "sleep" ELSE "idle"]
    /\ UNCHANGED pfuture
/\ UNCHANGED <<coreVars, streamVars, moveVars, rescueVars, admitVars,
             throttleVars, fenVars, cacheVars, jobVars, loopVars, timeVars,
             bookVars, guardLoopVars>>

\* the sleep of _retry_call is over
PaceWake(t) ==
    /\ ppc[t] = "sleep"
    /\ ppc' = [ppc EXCEPT ![t] = "call"]
    /\ UNCHANGED <<plock, pfuture>>
/\ UNCHANGED <<coreVars, streamVars, moveVars, rescueVars, admitVars,
             throttleVars, fenVars, cacheVars, jobVars, loopVars, timeVars,
             bookVars, guardLoopVars>>

\* _next_http_ok_at is reached while nobody sleeps for it
PaceTime ==
    /\ pfuture
    /\ ppc[Challenger] # "throttle_sleep"
    /\ pfuture' = FALSE
    /\ UNCHANGED <<ppc, plock>>
/\ UNCHANGED <<coreVars, streamVars, moveVars, rescueVars, admitVars,
             throttleVars, fenVars, cacheVars, jobVars, loopVars, timeVars,
             bookVars, guardLoopVars>>

NextPace ==
    \/ PaceEnter
    \/ PaceLock
    \/ PaceSlept
    \/ PaceSet
    \/ \E t \in SessionThreads : PaceCall(t)
    \/ \E t \in PaceThreads : PaceSend(t)
    \/ \E t \in PaceThreads, retried \in BOOLEAN : PaceAnswer(t, retried)
    \/ \E t \in PaceThreads : PaceWake(t)
    \/ PaceTime

SpecPace == Init /\ [][NextPace]_vars

\* C37: no thread holds _http_lock while it sleeps, in http_throttle or in
\* _retry_call, so that no session's call waits for a sleeper.
C37_NoSleepUnderLock ==
    \A t \in PaceThreads :
        ppc[t] \in {"throttle_sleep", "sleep"} => plock # t

(***************************************************************************)
(* C39.  The registry of active games never holds more than                *)
(* MAX_ACTIVE_GAMES ids: no sequence of challenge and gameStart events     *)
(* takes the number of claimed games above capacity.                       *)
(***************************************************************************)
\* C39: the registry holds at most MAX_ACTIVE_GAMES game ids.
C39_RegistryWithinCapacity == Cardinality(active_games) <= MAX_ACTIVE_GAMES

(***************************************************************************)
(* C40.  finalize_game adds to a result counter only for a game that the   *)
(* platform reports as finished with a result: a session whose game is     *)
(* still in progress when it ends (the engine failed to start, say) or     *)
(* whose game was aborted changes no counter.                              *)
(***************************************************************************)
\* statuses of the export that carry no result: the game is still being
\* played, or it was aborted
NoResultStatuses == {"started", "aborted"}

\* C40: a session at the end of finalize_game that called inc_result had
\* read from the export a status that carries a result.
C40_CountsOnlyResults ==
    \A i \in Slots :
        (pc[T(i)] = "exit" /\ tkind[T(i)] \in KINDS)
          => sres[T(i)][1] \notin NoResultStatuses

=============================================================================
